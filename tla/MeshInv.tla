------------------------------- MODULE MeshInv -------------------------------
(***************************************************************************)
(* The invariant of a network of Routers.  First, what the update of one   *)
(* Router does, for every state of a node.  Then the invariant, which is   *)
(* about the two ends of every session that is up: what a node remembers   *)
(* of what it told a neighbour (the last reach, the ENDs without an echo,  *)
(* its feasibility distance) agrees with what is in flight and with what   *)
(* the neighbour holds.  The lemmas say that sending, taking and echoing   *)
(* one message, and a whole update of one node, keep it.                   *)
(***************************************************************************)
EXTENDS Mesh, TLAPS

\* A ROUTE_END, and how many of them are in flight in q.
End == Route(None)
Ends(q) == Cardinality({i \in DOMAIN q : q[i] = End})

\* What the proofs below use of counting: a non-empty set of naturals has a least element,
\* and the number of ENDs follows the messages sent and taken.  MeshProofs proves it.
Counting ==
    /\ \A S \in SUBSET Nat : S # {} => \E m \in S : \A k \in S : m <= k
    /\ Ends(<<>>) = 0
    /\ \A q \in Seq(Messages) :
        /\ Ends(q) \in Nat
        /\ Ends(q) = 0 => \A i \in DOMAIN q : q[i] # End
        /\ \A m \in Messages : Ends(Append(q, m)) = Ends(q) + IF m = End THEN 1 ELSE 0
        /\ q # <<>> => Ends(q) = Ends(Tail(q)) + IF Head(q) = End THEN 1 ELSE 0
        /\ \A i \in DOMAIN q : q[i] # End => Ends(Without(q, i)) = Ends(q)

\* The states of one node.
NodeStates ==
    [link : [Nodes -> Links \cup {None}], peers : SUBSET Nodes, streams : SUBSET Nodes,
     draining : SUBSET Nodes, origin : Nat \cup {None}, fd : Distances \cup {None},
     pending : Pendings \cup {None}, rx : [Nodes -> Entries \cup {None}],
     sent : [Nodes -> Adverts \cup {Held, None}], unacked : [Nodes -> Nat],
     out : [Nodes -> Seq(Messages)]]

\* State for a neighbour is kept only while its session is up.
Sane(r) ==
    /\ r.streams \subseteq r.peers
    /\ \A p \in Nodes :
        /\ p \in r.peers => r.link[p] # None
        /\ p \notin r.peers => r.rx[p] = None /\ r.sent[p] = None /\ r.unacked[p] = 0

\* A neighbour selected in route.selected has an entry, a link and a natural metric.
LEMMA HeardType ==
    ASSUME NEW r \in NodeStates, Sane(r), NEW h \in BOOLEAN, NEW p \in Heard(r, h)
    PROVE  /\ p \in Nodes /\ r.rx[p] \in Entries /\ r.link[p] \in Links
           /\ Through(r, p) \in Nat
<1>1. p \in Nodes /\ r.rx[p] # None /\ r.rx[p] \in Entries \cup {None}
  BY DEF Heard, NodeStates
<1>2. r.link[p] # None /\ r.link[p] \in Links \cup {None}
  BY <1>1 DEF Sane, NodeStates
<1>3. r.rx[p].advert.metric \in Nat /\ r.link[p].cost \in Nat
  BY <1>1, <1>2 DEF Entries, Adverts, Links
<1> QED
  BY <1>1, <1>2, <1>3 DEF Through

\* A minimum in one component: the stages of a lexicographic minimum.
LEMMA MinOf ==
    ASSUME Counting, NEW S, S # {}, NEW f, \A p \in S : f[p] \in Nat
    PROVE  \E T \in SUBSET S : T # {} /\ (\A p \in T, q \in S : f[p] <= f[q]) /\ (\A p \in T, q \in S \ T : f[p] < f[q])
<1> DEFINE V == {f[p] : p \in S}
<1>1. PICK m \in V : \A k \in V : m <= k
  BY Zenon DEF Counting
<1> DEFINE T == {p \in S : f[p] = m}
<1>2. T \in SUBSET S /\ T # {}
  BY <1>1
<1>3. \A p \in T, q \in S : f[p] <= f[q]
  BY <1>1
<1>4. ASSUME NEW p \in T, NEW q \in S \ T PROVE f[p] < f[q]
  <2>1. f[p] = m /\ f[q] # m /\ m <= f[q]
    BY Zenon, <1>1
  <2>2. f[p] \in Nat /\ f[q] \in Nat
    BY Zenon
  <2> QED BY <2>1, <2>2
<1> QED
  BY Zenon, <1>2, <1>3, <1>4

\* The rank of selected has a minimum: the best of some neighbours is one of them, and
\* none of them precedes it.
LEMMA BestIn ==
    ASSUME Counting, NEW r \in NodeStates, Sane(r), NEW S \in SUBSET Heard(r, FALSE), S # {}
    PROVE  /\ Best(r, S) \in S
           /\ \A q \in S : ~Precedes(Rank(r, q), Rank(r, Best(r, S)))
<1> DEFINE a == [p \in S |-> IF p \in r.draining THEN 1 ELSE 0]
           b == [p \in S |-> 127 - r.link[p].priority]
           c == [p \in S |-> Through(r, p)]
           d == [p \in S |-> p]
<1>1. \A p \in S : p \in Nat /\ r.link[p].priority \in -128..127 /\ Through(r, p) \in Nat
  BY ZenonT(60), HeardType, RouterAssumption DEF Links
<1>2. \A p \in S : a[p] \in Nat /\ b[p] \in Nat /\ c[p] \in Nat /\ d[p] \in Nat
  <2> TAKE p \in S
  <2>1. a[p] \in Nat
    OBVIOUS
  <2>2. 127 - r.link[p].priority \in Nat
    <3> DEFINE x == r.link[p].priority
    <3>1. x \in -128..127
      BY <1>1
    <3> HIDE DEF a, b, c, d, x
    <3>2. 127 - x \in Nat
      BY <3>1
    <3> QED BY <3>2 DEF x
  <2>3. b[p] \in Nat
    BY <2>2
  <2>4. c[p] \in Nat /\ d[p] \in Nat
    BY <1>1
  <2> QED BY <2>1, <2>3, <2>4
<1>3. \A p \in S : Rank(r, p) = <<a[p], b[p], c[p], d[p]>>
  BY DEF Rank
<1> HIDE DEF a, b, c, d
<1>4. PICK A \in SUBSET S : A # {} /\ (\A p \in A, q \in S : a[p] <= a[q])
                           /\ (\A p \in A, q \in S \ A : a[p] < a[q])
  BY Zenon, <1>2, MinOf
<1>5. PICK B \in SUBSET A : B # {} /\ (\A p \in B, q \in A : b[p] <= b[q])
                           /\ (\A p \in B, q \in A \ B : b[p] < b[q])
  BY Zenon, <1>2, <1>4, MinOf
<1>6. PICK C \in SUBSET B : C # {} /\ (\A p \in C, q \in B : c[p] <= c[q])
                           /\ (\A p \in C, q \in B \ C : c[p] < c[q])
  BY Zenon, <1>2, <1>4, <1>5, MinOf
<1>7. PICK D \in SUBSET C : D # {} /\ (\A p \in D, q \in C : d[p] <= d[q])
  BY Zenon, <1>2, <1>4, <1>5, <1>6, MinOf
<1>8. PICK p \in D : p \in C /\ p \in B /\ p \in A /\ p \in S
  BY <1>4, <1>5, <1>6, <1>7
<1>9. ASSUME NEW q \in S
      PROVE  /\ a[p] <= a[q]
             /\ (a[p] = a[q] => b[p] <= b[q])
             /\ (a[p] = a[q] /\ b[p] = b[q] => c[p] <= c[q])
             /\ (a[p] = a[q] /\ b[p] = b[q] /\ c[p] = c[q] => d[p] <= d[q])
  <2>1. q \notin A => a[p] < a[q]
    BY <1>4, <1>8
  <2>2. q \in A => a[p] <= a[q] /\ b[p] <= b[q]
    BY <1>4, <1>5, <1>8
  <2>3. q \in A /\ q \notin B => b[p] < b[q]
    BY <1>5, <1>8
  <2>4. q \in B => c[p] <= c[q]
    BY <1>6, <1>8
  <2>5. q \in B /\ q \notin C => c[p] < c[q]
    BY <1>6, <1>8
  <2>6. q \in C => d[p] <= d[q]
    BY <1>7, <1>8
  <2>7. /\ a[p] \in Nat /\ b[p] \in Nat /\ c[p] \in Nat
        /\ a[q] \in Nat /\ b[q] \in Nat /\ c[q] \in Nat
    BY <1>2, <1>8
  <2>8. a[p] <= a[q] /\ (a[p] = a[q] => q \in A)
    BY <1>4, <1>8, <2>1, <2>7
  <2>9. a[p] = a[q] => b[p] <= b[q] /\ (b[p] = b[q] => q \in B)
    BY <2>2, <2>3, <2>7, <2>8
  <2>10. a[p] = a[q] /\ b[p] = b[q] => c[p] <= c[q] /\ (c[p] = c[q] => q \in C)
    BY <2>4, <2>5, <2>7, <2>9
  <2> QED BY <2>6, <2>8, <2>9, <2>10
<1>10. ASSUME NEW q \in S, Precedes(Rank(r, q), Rank(r, p)) PROVE FALSE
  <2> DEFINE s == <<a[q], b[q], c[q], d[q]>>  t == <<a[p], b[p], c[p], d[p]>>
  <2>1. PICK i \in 1..4 : s[i] < t[i] /\ \A j \in 1..(i - 1) : s[j] = t[j]
    BY <1>3, <1>8, <1>10 DEF Precedes
  <2>2. i > 1 => a[q] = a[p]
    BY <2>1
  <2>3. i > 2 => b[q] = b[p]
    BY <2>1
  <2>4. i > 3 => c[q] = c[p]
    BY <2>1
  <2>5. s[i] \in {a[q], b[q], c[q], d[q]}
    BY <2>1
  <2>6. CASE i = 1  BY <2>6, <2>1, <1>9, <1>8, <1>2
  <2>7. CASE i = 2  BY <2>7, <2>1, <2>2, <1>9, <1>8, <1>2
  <2>8. CASE i = 3  BY <2>8, <2>1, <2>2, <2>3, <1>9, <1>8, <1>2
  <2>9. CASE i = 4  BY <2>9, <2>1, <2>2, <2>3, <2>4, <1>9, <1>8, <1>2
  <2> QED BY <2>1, <2>6, <2>7, <2>8, <2>9
<1> QED
  BY Zenon, <1>8, <1>10 DEF Best

\* The rank of infeasible has a minimum: the closest of some neighbours is one of them,
\* and none of them precedes it.
LEMMA ClosestIn ==
    ASSUME Counting, NEW r \in NodeStates, Sane(r), NEW S \in SUBSET Heard(r, FALSE), S # {}
    PROVE  /\ Closest(r, S) \in S
           /\ \A q \in S : ~Precedes(<<Through(r, q), q>>,
                                     <<Through(r, Closest(r, S)), Closest(r, S)>>)
<1> DEFINE c == [p \in S |-> Through(r, p)]
           d == [p \in S |-> p]
<1>1. \A p \in S : c[p] \in Nat /\ d[p] \in Nat
  BY Zenon, HeardType, RouterAssumption
<1>2. \A p \in S : <<Through(r, p), p>> = <<c[p], d[p]>>
  OBVIOUS
<1> HIDE DEF c, d
<1>3. PICK C \in SUBSET S : C # {} /\ (\A p \in C, q \in S : c[p] <= c[q])
                           /\ (\A p \in C, q \in S \ C : c[p] < c[q])
  BY Zenon, <1>1, MinOf
<1>5. PICK D \in SUBSET C : D # {} /\ (\A p \in D, q \in C : d[p] <= d[q])
  BY Zenon, <1>1, <1>3, MinOf
<1>6. PICK p \in D : p \in S /\ p \in C
  BY <1>3, <1>5
<1>7. \A q \in S : c[p] <= c[q] /\ (c[p] = c[q] => d[p] <= d[q])
  BY <1>1, <1>3, <1>5, <1>6
<1>4. ASSUME NEW q \in S, Precedes(<<Through(r, q), q>>, <<Through(r, p), p>>) PROVE FALSE
  <2> DEFINE s == <<c[q], d[q]>>  t == <<c[p], d[p]>>
  <2>1. PICK i \in 1..2 : s[i] < t[i] /\ \A j \in 1..(i - 1) : s[j] = t[j]
    BY <1>2, <1>4 DEF Precedes
  <2>2. i = 2 => c[q] = c[p]
    BY <2>1
  <2>3. CASE i = 1  BY <2>3, <2>1, <1>7, <1>1
  <2>4. CASE i = 2  BY <2>4, <2>1, <2>2, <1>7, <1>1
  <2> QED BY <2>1, <2>3, <2>4
<1> QED
  BY Zenon, <1>4, <1>6 DEF Closest

\* selected answers a route or nothing.
LEMMA SelectedType ==
    ASSUME Counting, NEW r \in NodeStates, Sane(r)
    PROVE  Selected(r) \in Selections \cup {None}
<1>1. CASE r.origin # None
  <2>1. r.origin \in Nat
    BY <1>1 DEF NodeStates
  <2> QED
    BY <1>1, <2>1 DEF Selected, Selections
<1>2. CASE r.origin = None /\ Usable(r) # {}
  <2> DEFINE p == Best(r, Usable(r))
  <2>1. Usable(r) \in SUBSET Heard(r, FALSE)
    BY Zenon DEF Usable
  <2>2. p \in Heard(r, FALSE)
    BY Zenon, <1>2, <2>1, BestIn
  <2>3. p \in Nodes /\ r.rx[p] \in Entries /\ r.link[p] \in Links /\ Through(r, p) \in Nat
    BY Zenon, <2>2, HeardType
  <2> HIDE DEF p
  <2>4. /\ r.rx[p].advert.seqno \in Nat
        /\ (r.link[p].upstream \/ r.rx[p].advert.down) \in BOOLEAN
    BY <2>3 DEF Entries, Adverts, Links
  <2>5. Selected(r) = [next |-> p, seqno |-> r.rx[p].advert.seqno, metric |-> Through(r, p),
                       down |-> r.link[p].upstream \/ r.rx[p].advert.down]
    BY <1>2 DEF Selected, p
  <2> QED
    BY <2>3, <2>4, <2>5 DEF Selections
<1>3. CASE r.origin = None /\ Usable(r) = {}
  BY <1>3 DEF Selected
<1> QED
  BY <1>1, <1>2, <1>3

\* target answers a neighbour or nobody.
LEMMA TargetType ==
    ASSUME Counting, NEW r \in NodeStates, Sane(r)
    PROVE  Target(r) \in Nodes \cup {None}
<1>1. CASE Selected(r) # None
  BY <1>1, SelectedType DEF Target, Selections
<1>2. CASE Selected(r) = None /\ Infeasible(r) # {}
  <2>1. Infeasible(r) \in SUBSET Heard(r, FALSE)
    BY Zenon DEF Infeasible
  <2>2. Closest(r, Infeasible(r)) \in Nodes
    BY Zenon, <1>2, <2>1, ClosestIn, HeardType
  <2> QED
    BY <1>2, <2>2 DEF Target
<1>3. CASE Selected(r) = None /\ Infeasible(r) = {}
  BY <1>3 DEF Target
<1> QED
  BY <1>1, <1>2, <1>3

\* Moving the distance from one value to another forgets nothing it excluded.
Remembers(fd, new) == \A a \in Adverts : ~FeasibleFrom(fd, a) => ~FeasibleFrom(new, a)

\* What one update may do to neighbour p: nothing, or tell it a new reach x.
Answered(r, u, p) ==
    \/ /\ u.sent[p] = r.sent[p] /\ u.unacked[p] = r.unacked[p]
       /\ u.out[p] = <<>>
    \/ \E x \in Adverts \cup {Held, None} :
          /\ p \in r.peers
          /\ u.sent[p] = x
          /\ u.unacked[p] = r.unacked[p] + IF x = None THEN 1 ELSE 0
          /\ u.out[p] = <<Route(x)>>
          /\ x \in Adverts => ~FeasibleFrom(u.fd, x)

\* update leaves the sessions, the own seqno and the entries alone.
SameTable(r, u) ==
    /\ u.link = r.link /\ u.peers = r.peers /\ u.streams = r.streams
    /\ u.draining = r.draining /\ u.origin = r.origin /\ u.rx = r.rx

\* Nothing is queued: flushed before every input.
Silent(r) == \A p \in Nodes : r.out[p] = <<>>

\* record keeps the distance no worse than it was and than what is now told.
LEMMA RecordOK ==
    ASSUME NEW fd \in Distances \cup {None}, NEW sel \in Selections
    PROVE  /\ Record(fd, sel) \in Distances
           /\ Remembers(fd, Record(fd, sel))
           /\ ~FeasibleFrom(Record(fd, sel), sel)
<1>1. Record(fd, sel) \in Distances
  BY DEF Record, Selections, Distances, FeasibleFrom
<1>2. ~FeasibleFrom(Record(fd, sel), sel)
  <2>1. CASE FeasibleFrom(fd, sel)
    BY <2>1, <1>1, RouterAssumption DEF Record, FeasibleFrom, Selections, Distances
  <2>2. CASE ~FeasibleFrom(fd, sel)
    BY <2>2 DEF Record
  <2> QED BY <2>1, <2>2
<1>3. ASSUME NEW a \in Adverts, ~FeasibleFrom(fd, a) PROVE ~FeasibleFrom(Record(fd, sel), a)
  <2>1. a.seqno \in Nat /\ a.metric \in Nat /\ sel.seqno \in Nat /\ sel.metric \in Nat
    BY DEF Adverts, Selections
  <2>2. fd # None /\ fd.seqno \in Nat /\ fd.metric \in Nat
    BY <1>3 DEF FeasibleFrom, Distances
  <2>3. CASE FeasibleFrom(fd, sel)
    <3>1. Record(fd, sel) = [seqno |-> sel.seqno, metric |-> sel.metric] /\ Record(fd, sel) # None
      BY <2>3, <1>1, RouterAssumption DEF Record
    <3> QED BY <3>1, <2>1, <2>2, <2>3, <1>3 DEF FeasibleFrom
  <2>4. CASE ~FeasibleFrom(fd, sel)
    BY <2>4, <1>3 DEF Record
  <2> QED BY <2>3, <2>4
<1> QED
  BY <1>1, <1>2, <1>3 DEF Remembers

\* advertise tells a neighbour only what the recorded distance excludes, and counts the ENDs.
LEMMA AdvertiseOK ==
    ASSUME Counting, NEW r \in NodeStates, Sane(r), Silent(r)
    PROVE  LET u == Advertise(r) IN
           /\ u \in NodeStates
           /\ SameTable(r, u) /\ u.pending = r.pending
           /\ Remembers(r.fd, u.fd)
           /\ \A p \in Nodes : Answered(r, u, p)
<1> DEFINE sel == Selected(r)
           rec == Recorded(r, sel)
           live == Live(rec)
           reach == [p \in r.streams |-> Reach(r, p, sel, live)]
           u == Tell(rec, reach)
<1>0. u = Advertise(r)
  BY DEF Advertise
<1>1. sel \in Selections \cup {None}
  BY SelectedType
<1>2. rec = [r EXCEPT !.fd = rec.fd] /\ rec.fd \in Distances \cup {None} /\ Remembers(r.fd, rec.fd)
  <2>1. CASE sel # None /\ \E p \in r.streams : Exports(r, p, sel)
    <3>1. rec = [r EXCEPT !.fd = Record(r.fd, sel)]
      BY <2>1 DEF Recorded
    <3>2. r.fd \in Distances \cup {None}
      BY DEF NodeStates
    <3>3. Record(r.fd, sel) \in Distances /\ Remembers(r.fd, Record(r.fd, sel))
      BY <3>2, <2>1, <1>1, RecordOK
    <3>4. rec.fd = Record(r.fd, sel)
      BY <3>1 DEF NodeStates
    <3> QED BY <3>1, <3>3, <3>4
  <2>2. CASE ~(sel # None /\ \E p \in r.streams : Exports(r, p, sel))
    <3>1. rec = r
      BY <2>2 DEF Recorded
    <3> QED BY <3>1 DEF NodeStates, Remembers
  <2> QED BY <2>1, <2>2
<1>3. ASSUME NEW p \in r.streams
      PROVE  /\ reach[p] \in Adverts \cup {Held, None}
             /\ reach[p] \in Adverts => ~FeasibleFrom(rec.fd, reach[p])
  <2>1. CASE sel # None /\ Exports(r, p, sel)
    <3>1. sel \in Selections
      BY <1>1, <2>1
    <3>2. reach[p] = Advert(sel.seqno, sel.metric, sel.down)
      BY <2>1 DEF Reach
    <3>3. reach[p] \in Adverts
      BY <3>1, <3>2 DEF Advert, Adverts, Selections
    <3>4. r.fd \in Distances \cup {None} /\ rec.fd = Record(r.fd, sel)
      BY <2>1 DEF Recorded, NodeStates
    <3>5. ~FeasibleFrom(rec.fd, sel)
      BY Zenon, <3>1, <3>4, RecordOK
    <3>6. reach[p].seqno = sel.seqno /\ reach[p].metric = sel.metric
      BY <3>2 DEF Advert
    <3>7. ~FeasibleFrom(rec.fd, reach[p])
      BY <3>5, <3>6 DEF FeasibleFrom
    <3> QED BY <3>3, <3>7
  <2>2. CASE ~(sel # None /\ Exports(r, p, sel))
    <3>1. reach[p] \in {Held, None}
      BY <2>2 DEF Reach
    <3>2. Held \notin Adverts
      BY DEF Held, Adverts
    <3> QED BY <3>1, <3>2, RouterAssumption
  <2> QED BY <2>1, <2>2
<1>4. rec \in NodeStates /\ SameTable(r, rec) /\ rec.pending = r.pending
      /\ rec.sent = r.sent /\ rec.unacked = r.unacked /\ rec.out = r.out
  BY ZenonT(60), <1>2 DEF NodeStates, SameTable
<1>5. /\ SameTable(r, u) /\ u.pending = r.pending /\ u.fd = rec.fd
      /\ \A p \in Nodes :
            IF p \in r.streams /\ reach[p] # r.sent[p]
            THEN /\ u.sent[p] = reach[p]
                 /\ u.unacked[p] = IF reach[p] = None THEN r.unacked[p] + 1 ELSE r.unacked[p]
                 /\ u.out[p] = Append(r.out[p], Route(reach[p]))
            ELSE u.sent[p] = r.sent[p] /\ u.unacked[p] = r.unacked[p] /\ u.out[p] = r.out[p]
  <2> HIDE DEF reach, rec
  <2> QED BY <1>4 DEF Tell, SameTable, NodeStates
<1>6. \A p \in r.streams : Route(reach[p]) \in Messages
  <2> HIDE DEF reach
  <2> QED BY <1>3 DEF Route, Messages
<1>7. u \in NodeStates
  <2> HIDE DEF reach, rec
  <2> DEFINE changed == {p \in rec.streams : reach[p] # rec.sent[p]}
  <2>1. changed \subseteq r.streams /\ changed \subseteq Nodes
    BY <1>4 DEF SameTable, NodeStates
  <2>2. [p \in Nodes |-> IF p \in changed THEN reach[p] ELSE rec.sent[p]]
           \in [Nodes -> Adverts \cup {Held, None}]
    BY <2>1, <1>3, <1>4 DEF NodeStates
  <2>3. [p \in Nodes |-> IF p \in changed /\ reach[p] = None THEN rec.unacked[p] + 1 ELSE rec.unacked[p]]
           \in [Nodes -> Nat]
    BY <1>4 DEF NodeStates
  <2>4. [p \in Nodes |-> IF p \in changed THEN Append(rec.out[p], Route(reach[p])) ELSE rec.out[p]]
           \in [Nodes -> Seq(Messages)]
    <3>1. rec.out \in [Nodes -> Seq(Messages)]
      BY <1>4 DEF NodeStates
    <3> QED BY <2>1, <1>6, <3>1
  <2> HIDE DEF changed
  <2>5. u = [rec EXCEPT
       !.sent = [p \in Nodes |-> IF p \in changed THEN reach[p] ELSE rec.sent[p]],
       !.unacked = [p \in Nodes |->
           IF p \in changed /\ reach[p] = None THEN rec.unacked[p] + 1 ELSE rec.unacked[p]],
       !.out = [p \in Nodes |->
           IF p \in changed THEN Append(rec.out[p], Route(reach[p])) ELSE rec.out[p]]]
    BY DEF Tell, changed
  <2> QED BY ZenonT(60), <1>4, <2>2, <2>3, <2>4, <2>5 DEF NodeStates
<1>8. ASSUME NEW p \in Nodes PROVE Answered(r, u, p)
  <2> HIDE DEF reach, rec, u
  <2>1. r.out[p] = <<>>
    BY DEF Silent
  <2>2. CASE p \in r.streams /\ reach[p] # r.sent[p]
    <3>1. /\ u.sent[p] = reach[p]
          /\ u.unacked[p] = IF reach[p] = None THEN r.unacked[p] + 1 ELSE r.unacked[p]
          /\ u.out[p] = Append(<<>>, Route(reach[p]))
      BY <1>5, <2>1, <2>2
    <3>2. u.out[p] = <<Route(reach[p])>>
      BY <3>1
    <3>3. r.unacked[p] \in Nat /\ p \in r.peers
      BY <2>2 DEF NodeStates, Sane
    <3>4. u.unacked[p] = r.unacked[p] + IF reach[p] = None THEN 1 ELSE 0
      BY <3>1, <3>3
    <3> QED BY <3>1, <3>2, <3>3, <3>4, <1>3, <1>5, <2>2 DEF Answered
  <2>3. CASE ~(p \in r.streams /\ reach[p] # r.sent[p])
    BY <1>5, <2>1, <2>3 DEF Answered
  <2> QED BY <2>2, <2>3
<1> HIDE DEF u, rec
<1> QED
  BY <1>0, <1>2, <1>5, <1>7, <1>8

\* update drops the distance only when nothing is told and no END awaits its echo.
LEMMA DropDistanceOK ==
    ASSUME NEW r \in NodeStates
    PROVE  LET u == DropDistance(r) IN
           /\ u \in NodeStates
           /\ SameTable(r, u) /\ u.pending = r.pending
           /\ u.sent = r.sent /\ u.unacked = r.unacked /\ u.out = r.out
           /\ \/ u.fd = r.fd
              \/ \A p \in Nodes : u.sent[p] = None /\ u.unacked[p] = 0
  BY DEF DropDistance, Drained, NodeStates, SameTable

\* A merged request is a request.
LEMMA WantingType ==
    ASSUME NEW pending \in Pendings \cup {None}, NEW seqno \in Nat
    PROVE  Wanting(pending, seqno) \in Pendings
  BY Zenon DEF Wanting, Pendings

\* requests queues at most one request and touches neither distance nor entries.
LEMMA RequestsOK ==
    ASSUME Counting, NEW r \in NodeStates, Sane(r)
    PROVE  LET u == Requests(r) IN
           /\ u \in NodeStates
           /\ SameTable(r, u) /\ u.fd = r.fd /\ u.sent = r.sent /\ u.unacked = r.unacked
           /\ \A p \in Nodes : \/ u.out[p] = r.out[p]
                               \/ \E s \in Nat : u.out[p] = Append(r.out[p], Request(s))
<1> DEFINE sel == Selected(r)
           target == Target(r)
           pending == IF Starved(r) THEN Wanting(r.pending, r.fd.seqno + 1) ELSE r.pending
           settled == \/ r.origin # None
                      \/ sel # None /\ sel.seqno >= pending.seqno
                      \/ pending.from = {} /\ ~Starved(r)
                      \/ target = None
<1>1. target \in Nodes \cup {None}
  BY TargetType
<1>2. pending \in Pendings \cup {None}
  <2>1. CASE Starved(r)
    <3>1. r.fd # None
      BY Zenon, <2>1 DEF Starved, Infeasible, Feasible, FeasibleFrom
    <3>2. r.fd.seqno + 1 \in Nat /\ r.pending \in Pendings \cup {None}
      BY <3>1 DEF NodeStates, Distances
    <3> QED BY <2>1, <3>2, WantingType
  <2>2. CASE ~Starved(r)
    BY <2>2 DEF NodeStates
  <2> QED BY <2>1, <2>2
<1> HIDE DEF target, pending, settled
<1>3. CASE pending = None \/ settled
  <2>1. Requests(r) = [r EXCEPT !.pending = None]
    BY <1>3 DEF Requests, target, pending, settled
  <2> QED BY Zenon, <2>1 DEF NodeStates, SameTable
<1>4. CASE ~(pending = None \/ settled) /\ pending.asked = target
  <2>1. Requests(r) = [r EXCEPT !.pending = pending]
    BY <1>4 DEF Requests, target, pending, settled
  <2> QED BY Zenon, <2>1, <1>2 DEF NodeStates, SameTable
<1>5. CASE ~(pending = None \/ settled) /\ pending.asked # target
  <2> DEFINE np == [pending EXCEPT !.asked = target]
  <2>1. Requests(r) = [r EXCEPT !.pending = np, !.out[target] = Append(@, Request(pending.seqno))]
    BY <1>5 DEF Requests, target, pending, settled
  <2>2. target \in Nodes /\ pending \in Pendings
    BY <1>1, <1>2, <1>5 DEF settled
  <2>3. np \in Pendings /\ pending.seqno \in Nat /\ Request(pending.seqno) \in Messages
    BY <2>2 DEF Pendings, Request, Messages
  <2> HIDE DEF np
  <2>4. r.out \in [Nodes -> Seq(Messages)]
    BY DEF NodeStates
  <2>5. Append(r.out[target], Request(pending.seqno)) \in Seq(Messages)
    BY <2>2, <2>3, <2>4
  <2> DEFINE no == [r.out EXCEPT ![target] = Append(@, Request(pending.seqno))]
  <2>6. no \in [Nodes -> Seq(Messages)]
    BY <2>2, <2>4, <2>5
  <2>7. \A p \in Nodes : no[p] = IF p = target THEN Append(r.out[p], Request(pending.seqno)) ELSE r.out[p]
    BY <2>4
  <2>8. Requests(r) = [r EXCEPT !.pending = np, !.out = no]
    BY <2>1
  <2> HIDE DEF no
  <2>9. /\ Requests(r) \in NodeStates /\ SameTable(r, Requests(r))
        /\ Requests(r).fd = r.fd /\ Requests(r).sent = r.sent
        /\ Requests(r).unacked = r.unacked /\ Requests(r).out = no
    BY ZenonT(60), <2>8, <2>3, <2>6 DEF NodeStates, SameTable
  <2> QED BY Zenon, <2>3, <2>7, <2>9
<1> QED BY <1>3, <1>4, <1>5

\* What an update may queue for a neighbour: at most one route, then at most one
\* request.
Relayed(r, u, p, base) ==
    \/ u.out[p] = base
    \/ \E s \in Nat : u.out[p] = Append(base, Request(s))

\* What one update may do to neighbour p, requests included.
UpdateAnswer(r, u, p) ==
    \/ /\ u.sent[p] = r.sent[p] /\ u.unacked[p] = r.unacked[p]
       /\ Relayed(r, u, p, <<>>)
    \/ \E x \in Adverts \cup {Held, None} :
          /\ p \in r.peers
          /\ u.sent[p] = x
          /\ u.unacked[p] = r.unacked[p] + IF x = None THEN 1 ELSE 0
          /\ Relayed(r, u, p, <<Route(x)>>)
          /\ x \in Adverts => ~FeasibleFrom(u.fd, x)

\* What every handler relies on: update tells only what its distance excludes, and either
\* forgets no distance or has nothing told and no END unechoed.
LEMMA UpdateOK ==
    ASSUME Counting, NEW r \in NodeStates, Sane(r), Silent(r)
    PROVE  LET u == Update(r) IN
           /\ u \in NodeStates /\ Sane(u) /\ SameTable(r, u)
           /\ \A p \in Nodes : UpdateAnswer(r, u, p)
           /\ \/ Remembers(r.fd, u.fd)
              \/ \A p \in Nodes : u.sent[p] = None /\ u.unacked[p] = 0
<1> DEFINE a == Advertise(r)  d == DropDistance(a)  u == Requests(d)
<1>1. /\ a \in NodeStates
      /\ SameTable(r, a) /\ a.pending = r.pending
      /\ Remembers(r.fd, a.fd)
      /\ \A p \in Nodes : Answered(r, a, p)
  BY AdvertiseOK
<1> HIDE DEF a
<1>2. /\ d \in NodeStates
      /\ SameTable(a, d) /\ d.pending = a.pending
      /\ d.sent = a.sent /\ d.unacked = a.unacked /\ d.out = a.out
      /\ \/ d.fd = a.fd
         \/ \A p \in Nodes : d.sent[p] = None /\ d.unacked[p] = 0
  BY <1>1, DropDistanceOK
<1> HIDE DEF d
<1>3. Sane(d)
  <2>1. SameTable(r, d)
    BY <1>1, <1>2 DEF SameTable
  <2>2. \A p \in Nodes : p \notin r.peers => d.sent[p] = r.sent[p] /\ d.unacked[p] = r.unacked[p]
    BY <1>1, <1>2 DEF Answered
  <2> QED BY <2>1, <2>2 DEF Sane, SameTable
<1>4. /\ u \in NodeStates
      /\ SameTable(d, u) /\ u.fd = d.fd /\ u.sent = d.sent /\ u.unacked = d.unacked
      /\ \A p \in Nodes : Relayed(d, u, p, d.out[p])
  BY ZenonT(60), <1>2, <1>3, RequestsOK DEF Relayed
<1>5. u = Update(r)
  BY DEF Update, a, d
<1> HIDE DEF u
<1>6. SameTable(r, u) /\ Sane(u)
  BY <1>1, <1>2, <1>3, <1>4 DEF SameTable, Sane
<1>7. \/ Remembers(r.fd, u.fd) /\ u.fd = a.fd
      \/ \A p \in Nodes : u.sent[p] = None /\ u.unacked[p] = 0
  BY <1>1, <1>2, <1>4
<1>8. ASSUME NEW p \in Nodes PROVE UpdateAnswer(r, u, p)
  <2>1. CASE /\ a.sent[p] = r.sent[p] /\ a.unacked[p] = r.unacked[p]
             /\ a.out[p] = <<>>
    BY <2>1, <1>2, <1>4 DEF UpdateAnswer, Relayed
  <2>2. ASSUME NEW x \in Adverts \cup {Held, None},
               /\ p \in r.peers
               /\ a.sent[p] = x
               /\ a.unacked[p] = r.unacked[p] + IF x = None THEN 1 ELSE 0
               /\ a.out[p] = <<Route(x)>>
               /\ x \in Adverts => ~FeasibleFrom(a.fd, x)
        PROVE  UpdateAnswer(r, u, p)
    <3>1. x \in Adverts => u.fd = a.fd
      BY <2>2, <1>2, <1>4, <1>7, RouterAssumption
    <3>2. /\ u.sent[p] = x
          /\ u.unacked[p] = r.unacked[p] + IF x = None THEN 1 ELSE 0
          /\ Relayed(r, u, p, <<Route(x)>>)
      BY Zenon, <2>2, <1>2, <1>4 DEF Relayed
    <3> QED BY <2>2, <3>1, <3>2 DEF UpdateAnswer
  <2> QED BY <2>1, <2>2, <1>1 DEF Answered
<1> QED BY <1>4, <1>5, <1>6, <1>7, <1>8

\* What a node remembers of what it told a neighbour (sent, unacked, fd) agrees with
\* what is in flight (messages q, echoes k) and with the neighbour's entry.
Agree(q, k, entry, sent, unacked, fd) ==
    /\ unacked = Ends(q) + k
    /\ entry # None => ~FeasibleFrom(fd, entry.advert)
    /\ \A i \in DOMAIN q : IsFinite(q[i]) => ~FeasibleFrom(fd, q[i].reach)
    /\ sent = None /\ entry # None => \E j \in DOMAIN q : q[j] = End
    /\ sent = None => \A i \in DOMAIN q : IsFinite(q[i]) => \E j \in DOMAIN q : j > i /\ q[j] = End

\* The number of ENDs in flight is a natural.
LEMMA EndsType ==
    ASSUME Counting PROVE \A q \in Seq(Messages) : Ends(q) \in Nat
  BY Zenon DEF Counting

\* Without ENDs the number is zero.
LEMMA EndsNone ==
    ASSUME Counting, NEW q \in Seq(Messages), Ends(q) = 0
    PROVE  \A i \in DOMAIN q : q[i] # End
  BY Zenon DEF Counting

\* Appending a message counts it if it is an END.
LEMMA EndsAppend ==
    ASSUME Counting, NEW q \in Seq(Messages), NEW m \in Messages
    PROVE  Ends(Append(q, m)) = Ends(q) + IF m = End THEN 1 ELSE 0
  BY Zenon DEF Counting

\* Taking a message off the front uncounts it if it is an END.
LEMMA EndsTail ==
    ASSUME Counting, NEW q \in Seq(Messages), q # <<>>
    PROVE  Ends(q) = Ends(Tail(q)) + IF Head(q) = End THEN 1 ELSE 0
  BY Zenon DEF Counting

\* The queue without the message at its front.
LEMMA FrontTaken ==
    ASSUME NEW q \in Seq(Messages), q # <<>>
    PROVE  /\ Tail(q) \in Seq(Messages) /\ Len(q) \in Nat /\ Len(q) > 0
           /\ DOMAIN Tail(q) = 1..(Len(q) - 1) /\ DOMAIN q = 1..Len(q)
           /\ Len(Tail(q)) = Len(q) - 1
           /\ \A i \in DOMAIN Tail(q) : Tail(q)[i] = q[i + 1]
           /\ Head(q) = q[1] /\ Head(q) \in Messages
  OBVIOUS

\* The queue without one of its messages.
LEMMA OneTaken ==
    ASSUME NEW q \in Seq(Messages), NEW i \in DOMAIN q
    PROVE  /\ Without(q, i) \in Seq(Messages) /\ Len(q) \in Nat
           /\ DOMAIN Without(q, i) = 1..(Len(q) - 1) /\ DOMAIN q = 1..Len(q)
           /\ \A j \in DOMAIN Without(q, i) : Without(q, i)[j] = IF j < i THEN q[j] ELSE q[j + 1]
           /\ q[i] \in Messages
<1>1. Len(q) \in Nat /\ DOMAIN q = 1..Len(q) /\ i \in 1..Len(q) /\ q[i] \in Messages
  OBVIOUS
<1>2. Len(q) - 1 \in Nat
  BY <1>1
<1>3. ASSUME NEW j \in 1..(Len(q) - 1) PROVE (IF j < i THEN q[j] ELSE q[j + 1]) \in Messages
  <2>1. j \in 1..Len(q) /\ j + 1 \in 1..Len(q)
    BY <1>1
  <2> QED BY <1>1, <2>1
<1>4. Without(q, i) \in [1..(Len(q) - 1) -> Messages]
  BY Zenon, <1>3 DEF Without
<1>5. \A n \in Nat : \A f \in [1..n -> Messages] : f \in Seq(Messages)
  OBVIOUS
<1>6. Without(q, i) \in Seq(Messages)
  BY Zenon, <1>2, <1>4, <1>5
<1> QED BY Zenon, <1>1, <1>4, <1>6 DEF Without

\* A ROUTE in flight carries a reach, a request a seqno, and END is the ROUTE with none.
LEMMA MessageKinds ==
    /\ \A x \in Adverts \cup {Held, None} :
          /\ Route(x) \in Messages
          /\ Route(x) = End <=> x = None
          /\ IsFinite(Route(x)) <=> x \in Adverts
          /\ Route(x).reach = x
    /\ \A s \in Nat : Request(s) \in Messages /\ Request(s) # End /\ ~IsFinite(Request(s))
<1>1. Held \notin Adverts
  BY DEF Held, Adverts
<1>2. ASSUME NEW x \in Adverts \cup {Held, None}
      PROVE  /\ Route(x) \in Messages
             /\ Route(x) = End <=> x = None
             /\ IsFinite(Route(x)) <=> x \in Adverts
             /\ Route(x).reach = x
  BY <1>1, RouterAssumption DEF Route, Messages, End, IsFinite
<1>3. ASSUME NEW s \in Nat PROVE Request(s) \in Messages /\ Request(s) # End /\ ~IsFinite(Request(s))
  <2>1. Request(s).type = "request" /\ End.type = "route"
    BY DEF Request, End, Route
  <2> QED BY <2>1 DEF Request, Messages, IsFinite
<1> QED BY <1>2, <1>3

\* Telling a neighbour a reach that the distance excludes keeps both ends in agreement.
LEMMA AgreeRoute ==
    ASSUME Counting, NEW q \in Seq(Messages), NEW k \in Nat, NEW e, NEW sent, NEW un \in Nat, NEW fd,
           Agree(q, k, e, sent, un, fd),
           NEW x \in Adverts \cup {Held, None}, x \in Adverts => ~FeasibleFrom(fd, x)
    PROVE  Agree(Append(q, Route(x)), k, e, x, un + IF x = None THEN 1 ELSE 0, fd)
<1> DEFINE a == Append(q, Route(x))
<1>1. /\ Route(x) \in Messages /\ (Route(x) = End <=> x = None)
      /\ (IsFinite(Route(x)) <=> x \in Adverts) /\ Route(x).reach = x
  BY MessageKinds
<1>2. /\ a \in Seq(Messages) /\ DOMAIN a = 1..(Len(q) + 1) /\ DOMAIN q = 1..Len(q)
      /\ \A i \in DOMAIN q : a[i] = q[i]
      /\ a[Len(q) + 1] = Route(x) /\ Len(q) \in Nat
  BY <1>1
<1>3. un + (IF x = None THEN 1 ELSE 0) = Ends(a) + k
  BY <1>1, EndsAppend, EndsType DEF Agree
<1> HIDE DEF a
<1>4. \A i \in DOMAIN a : IsFinite(a[i]) => ~FeasibleFrom(fd, a[i].reach)
  BY <1>1, <1>2 DEF Agree
<1>5. CASE x = None
  <2>1. Len(q) + 1 \in DOMAIN a /\ a[Len(q) + 1] = End /\ ~IsFinite(a[Len(q) + 1])
    BY <1>1, <1>2, <1>5, RouterAssumption
  <2>2. \A i \in DOMAIN a : IsFinite(a[i]) => Len(q) + 1 > i
    BY <1>2, <2>1
  <2> QED BY SMTT(60), <1>3, <1>4, <1>5, <2>1, <2>2 DEF Agree, a
<1>6. CASE x # None
  BY <1>3, <1>4, <1>6 DEF Agree, a
<1> QED BY <1>5, <1>6

\* So does sending it a request.
LEMMA AgreeRequest ==
    ASSUME Counting, NEW q \in Seq(Messages), NEW k \in Nat, NEW e, NEW sent, NEW un \in Nat, NEW fd,
           Agree(q, k, e, sent, un, fd), NEW s \in Nat
    PROVE  Agree(Append(q, Request(s)), k, e, sent, un, fd)
<1> DEFINE a == Append(q, Request(s))
<1>1. Request(s) \in Messages /\ Request(s) # End /\ ~IsFinite(Request(s))
  BY MessageKinds
<1>2. /\ a \in Seq(Messages) /\ DOMAIN a = 1..(Len(q) + 1) /\ DOMAIN q = 1..Len(q)
      /\ \A i \in DOMAIN q : a[i] = q[i]
      /\ a[Len(q) + 1] = Request(s) /\ Len(q) \in Nat
  BY <1>1
<1>3. Ends(a) = Ends(q)
  BY <1>1, EndsAppend, EndsType
<1> HIDE DEF a
<1> QED BY <1>1, <1>2, <1>3 DEF Agree, a

\* So does any change of the distance that forgets nothing.
LEMMA AgreeRemembers ==
    ASSUME NEW q \in Seq(Messages), NEW k \in Nat, NEW e \in Entries \cup {None}, NEW sent, NEW un \in Nat,
           NEW fd, NEW new, Agree(q, k, e, sent, un, fd), Remembers(fd, new)
    PROVE  Agree(q, k, e, sent, un, new)
<1>1. e # None => e.advert \in Adverts
  BY DEF Entries
<1>2. \A i \in DOMAIN q : IsFinite(q[i]) => q[i].reach \in Adverts
  BY DEF IsFinite, Messages
<1> QED BY <1>1, <1>2 DEF Agree, Remembers

\* So does dropping the distance once nothing is told and no END is unechoed: the
\* neighbour then neither holds nor awaits an advertisement.
LEMMA AgreeDrained ==
    ASSUME Counting, NEW q \in Seq(Messages), NEW k \in Nat, NEW e, NEW fd, NEW new,
           Agree(q, k, e, None, 0, fd)
    PROVE  Agree(q, k, e, None, 0, new)
<1>1. Ends(q) = 0 /\ k = 0
  BY EndsType DEF Agree
<1>2. \A i \in DOMAIN q : q[i] # End
  BY <1>1, EndsNone
<1> QED BY <1>2 DEF Agree

\* So does the neighbour applying the next ROUTE, whose echo it sends for an END.
LEMMA AgreeTakeRoute ==
    ASSUME Counting, NEW q \in Seq(Messages), NEW k \in Nat, NEW e \in Entries \cup {None}, NEW sent, NEW un \in Nat,
           NEW fd, Agree(q, k, e, sent, un, fd), q # <<>>, Head(q).type = "route"
    PROVE  /\ Head(q).reach \in Adverts \cup {Held, None}
           /\ Applied(e, Head(q).reach) \in Entries \cup {None}
           /\ Agree(Tail(q), k + IF Head(q).reach = None THEN 1 ELSE 0, Applied(e, Head(q).reach), sent, un, fd)
<1> DEFINE x == Head(q).reach  t == Tail(q)  n == Applied(e, x)
<1>1. /\ t \in Seq(Messages) /\ Len(q) \in Nat /\ Len(q) > 0 /\ DOMAIN t = 1..(Len(q) - 1)
      /\ DOMAIN q = 1..Len(q) /\ \A i \in DOMAIN t : t[i] = q[i + 1]
      /\ Head(q) = q[1] /\ Head(q) \in Messages
  BY FrontTaken
<1>2. x \in Adverts \cup {Held, None} /\ Head(q) = Route(x)
  BY <1>1 DEF Messages, Route
<1> HIDE DEF x, t
<1>3. /\ (Head(q) = End <=> x = None) /\ (IsFinite(Head(q)) <=> x \in Adverts)
  BY <1>2, MessageKinds
<1>4. n \in Entries \cup {None}
  BY Zenon, <1>2 DEF Applied, Entries
<1>5. un = Ends(t) + (k + IF x = None THEN 1 ELSE 0)
  <2>1. Ends(q) = Ends(t) + IF Head(q) = End THEN 1 ELSE 0
    BY EndsTail DEF t
  <2> QED BY <2>1, <1>1, <1>3, EndsType DEF Agree
<1>6. n # None => ~FeasibleFrom(fd, n.advert)
  <2>1. CASE x \in Adverts
    <3>1. ~FeasibleFrom(fd, x)
      BY <1>1, <1>3, <2>1 DEF Agree, x
    <3>2. n.advert = x
      BY <2>1, RouterAssumption DEF Applied, Held, Adverts
    <3> QED BY <3>1, <3>2
  <2>2. CASE x \notin Adverts
    <3>1. n # None => e # None /\ n.advert = e.advert
      BY <1>2, <2>2 DEF Applied, Entries
    <3> QED BY <3>1 DEF Agree
  <2> QED BY <2>1, <2>2
<1>7. \A i \in DOMAIN t : IsFinite(t[i]) => ~FeasibleFrom(fd, t[i].reach)
  BY <1>1 DEF Agree
<1>8. ASSUME sent = None, NEW i \in DOMAIN t, IsFinite(t[i])
      PROVE  \E j \in DOMAIN t : j > i /\ t[j] = End
  <2>1. PICK j \in DOMAIN q : j > i + 1 /\ q[j] = End
    BY <1>1, <1>8 DEF Agree
  <2>2. j - 1 \in DOMAIN t /\ j - 1 > i /\ t[j - 1] = End
    BY <1>1, <2>1
  <2> QED BY <2>2
<1>9. ASSUME sent = None, n # None PROVE \E j \in DOMAIN t : t[j] = End
  <2>1. CASE x \in Adverts
    <3>1. PICK j \in DOMAIN q : j > 1 /\ q[j] = End
      BY SMTT(60), <1>1, <1>3, <1>9, <2>1 DEF Agree
    <3>2. j - 1 \in DOMAIN t /\ t[j - 1] = End
      BY <1>1, <3>1
    <3> QED BY <3>2
  <2>2. CASE x \notin Adverts
    <3>1. e # None /\ x # None
      BY <1>2, <1>9, <2>2 DEF Applied
    <3>2. PICK j \in DOMAIN q : q[j] = End
      BY <1>9, <3>1 DEF Agree
    <3>3. j # 1
      BY SMTT(60), <1>1, <1>3, <3>1, <3>2
    <3>4. j - 1 \in DOMAIN t /\ t[j - 1] = End
      BY <1>1, <3>2, <3>3
    <3> QED BY <3>4
  <2> QED BY <2>1, <2>2
<1> HIDE DEF n
<1>10. Agree(t, k + IF x = None THEN 1 ELSE 0, n, sent, un, fd)
  BY SMTT(60), <1>5, <1>6, <1>7, <1>8, <1>9 DEF Agree
<1> QED BY <1>2, <1>4, <1>10 DEF x, t, n

\* So does the neighbour taking a request, whatever is in front of it.
LEMMA AgreeTakeRequest ==
    ASSUME Counting, NEW q \in Seq(Messages), NEW k \in Nat, NEW e, NEW sent, NEW un \in Nat, NEW fd,
           Agree(q, k, e, sent, un, fd), NEW i \in DOMAIN q, q[i].type = "request"
    PROVE  Agree(Without(q, i), k, e, sent, un, fd) /\ q[i].seqno \in Nat
<1> DEFINE t == Without(q, i)
<1>1. /\ t \in Seq(Messages) /\ Len(q) \in Nat /\ DOMAIN t = 1..(Len(q) - 1)
      /\ DOMAIN q = 1..Len(q) /\ \A j \in DOMAIN t : t[j] = IF j < i THEN q[j] ELSE q[j + 1]
      /\ q[i] \in Messages
  BY Zenon, OneTaken
<1>2. q[i] # End /\ q[i].seqno \in Nat
  BY <1>1 DEF End, Route, Messages
<1>3. un = Ends(t) + k
  <2>1. Ends(t) = Ends(q)
    BY Zenon, <1>2 DEF Counting
  <2> QED BY Zenon, <2>1 DEF Agree
<1> HIDE DEF t
<1>4. ASSUME NEW j \in DOMAIN q, q[j] = End
      PROVE  LET h == IF j < i THEN j ELSE j - 1 IN h \in DOMAIN t /\ t[h] = End
  <2>1. j # i
    BY Zenon, <1>2, <1>4
  <2> QED BY <1>1, <1>4, <2>1
<1>5. ASSUME sent = None, NEW a \in DOMAIN t, IsFinite(t[a])
      PROVE  \E b \in DOMAIN t : b > a /\ t[b] = End
  <2> DEFINE g == IF a < i THEN a ELSE a + 1
  <2>1. g \in DOMAIN q /\ q[g] = t[a]
    BY <1>1
  <2>2. PICK j \in DOMAIN q : j > g /\ q[j] = End
    BY Zenon, <1>5, <2>1 DEF Agree
  <2>3. j # i
    BY Zenon, <1>2, <2>2
  <2>4. (IF j < i THEN j ELSE j - 1) > a
    BY <1>1, <2>2, <2>3
  <2> QED BY Zenon, <1>4, <2>2, <2>4
<1>6. ASSUME NEW a \in DOMAIN t, IsFinite(t[a]) PROVE ~FeasibleFrom(fd, t[a].reach)
  <2>1. PICK g \in DOMAIN q : q[g] = t[a]
    BY <1>1
  <2> QED BY Zenon, <1>6, <2>1 DEF Agree
<1>7. sent = None /\ e # None => \E j \in DOMAIN t : t[j] = End
  BY Zenon, <1>4 DEF Agree
<1>8. e # None => ~FeasibleFrom(fd, e.advert)
  BY Zenon DEF Agree
<1>9. Agree(t, k, e, sent, un, fd)
  BY Zenon, <1>3, <1>5, <1>6, <1>7, <1>8 DEF Agree
<1> QED BY Zenon, <1>2, <1>9 DEF t

\* So does the echo, which always answers an END that was counted.
LEMMA AgreeEcho ==
    ASSUME Counting, NEW q \in Seq(Messages), NEW k \in Nat, NEW e, NEW sent, NEW un \in Nat, NEW fd,
           Agree(q, k, e, sent, un, fd), k > 0
    PROVE  un > 0 /\ Agree(q, k - 1, e, sent, un - 1, fd)
  BY EndsType DEF Agree

\* The ends of a session that just opened agree.
LEMMA AgreeNew ==
    ASSUME Counting, NEW fd PROVE Agree(<<>>, 0, None, None, 0, fd)
<1>1. Ends(<<>>) = 0
  BY Zenon DEF Counting
<1> QED BY <1>1 DEF Agree

\* Both ends of the session have it, in the network nd.
UpIn(nd, n, p) == p \in nd[n].peers /\ n \in nd[p].peers

\* The network invariant, for a network of nodes nd with messages q and echoes k in flight.
NetInv(nd, q, k) ==
    /\ nd \in [Nodes -> NodeStates] /\ q \in [Pairs -> Seq(Messages)] /\ k \in [Pairs -> Nat]
    /\ \A n \in Nodes : Sane(nd[n]) /\ Silent(nd[n]) /\ n \notin nd[n].peers
    /\ \A n, p \in Nodes : nd[n].link[p] # None => nd[p].link[n] # None
    /\ \A n, p \in Nodes :
          IF UpIn(nd, n, p)
          THEN Agree(q[<<n, p>>], k[<<p, n>>], nd[p].rx[n], nd[n].sent[p], nd[n].unacked[p], nd[n].fd)
          ELSE q[<<n, p>>] = <<>> /\ k[<<n, p>>] = 0

\* The node r with its messages handed to the sessions.
Muted(r) == [r EXCEPT !.out = [p \in Nodes |-> <<>>]]

\* The messages in flight once node n, now u, has sent what its update queued.
Sent(nd, n, u, q) ==
    [c \in Pairs |-> IF c[1] = n /\ UpIn(nd, n, c[2]) THEN q[c] \o u.out[c[2]] ELSE q[c]]

\* Appending what an update queued, message by message.
LEMMA ConcatRelayed ==
    ASSUME NEW q \in Seq(Messages), NEW o \in Seq(Messages), NEW s \in Messages, NEW m \in Messages
    PROVE  /\ q \o <<>> = q
           /\ q \o <<m>> = Append(q, m)
           /\ q \o Append(<<>>, s) = Append(q, s)
           /\ q \o Append(<<m>>, s) = Append(Append(q, m), s)
  OBVIOUS

\* A node that runs update and flushes preserves the network invariant.
LEMMA UpdatePreserves ==
    ASSUME Counting, NEW nd, NEW q, NEW k, NetInv(nd, q, k), NEW n \in Nodes
    PROVE  LET u == Update(nd[n]) IN NetInv([nd EXCEPT ![n] = Muted(u)], Sent(nd, n, u, q), k)
<1> DEFINE r == nd[n]  u == Update(r)  nd2 == [nd EXCEPT ![n] = Muted(u)]  q2 == Sent(nd, n, u, q)
<1>0. /\ nd \in [Nodes -> NodeStates] /\ q \in [Pairs -> Seq(Messages)] /\ k \in [Pairs -> Nat]
      /\ \A m \in Nodes : Sane(nd[m]) /\ Silent(nd[m]) /\ m \notin nd[m].peers
      /\ \A m, p \in Nodes : nd[m].link[p] # None => nd[p].link[m] # None
  BY DEF NetInv
<1>1. /\ u \in NodeStates /\ Sane(u) /\ SameTable(r, u)
      /\ \A p \in Nodes : UpdateAnswer(r, u, p)
      /\ \/ Remembers(r.fd, u.fd)
         \/ \A p \in Nodes : u.sent[p] = None /\ u.unacked[p] = 0
  BY <1>0, UpdateOK
<1> HIDE DEF u
<1>2. /\ Muted(u) \in NodeStates /\ SameTable(r, Muted(u)) /\ Silent(Muted(u)) /\ Sane(Muted(u))
      /\ Muted(u).sent = u.sent /\ Muted(u).unacked = u.unacked /\ Muted(u).fd = u.fd
  <2>1. [p \in Nodes |-> <<>>] \in [Nodes -> Seq(Messages)]
    OBVIOUS
  <2> QED BY ZenonT(60), <1>1, <2>1 DEF Muted, SameTable, NodeStates, Silent, Sane
<1>3. /\ nd2 \in [Nodes -> NodeStates] /\ nd2[n] = Muted(u)
      /\ \A m \in Nodes : m # n => nd2[m] = nd[m]
  BY <1>0, <1>2
<1> HIDE DEF nd2
<1>4. \A m \in Nodes : /\ nd2[m].peers = nd[m].peers /\ nd2[m].link = nd[m].link
                       /\ nd2[m].rx = nd[m].rx
  BY <1>2, <1>3 DEF SameTable
<1>5. \A m, p \in Nodes : UpIn(nd2, m, p) <=> UpIn(nd, m, p)
  BY <1>4 DEF UpIn
<1>6. \A p \in Nodes : u.out[p] \in Seq(Messages)
  BY <1>1 DEF NodeStates
<1>7. q2 \in [Pairs -> Seq(Messages)]
  BY <1>0, <1>6 DEF Sent, Pairs
<1>8. ASSUME NEW m \in Nodes, NEW p \in Nodes, m # n \/ ~UpIn(nd, m, p)
      PROVE  q2[<<m, p>>] = q[<<m, p>>]
  BY SMTT(60), <1>8 DEF Sent, Pairs
<1>9. ASSUME NEW p \in Nodes, UpIn(nd, n, p)
      PROVE  q2[<<n, p>>] = q[<<n, p>>] \o u.out[p]
  BY Zenon, <1>9 DEF Sent, Pairs
<1> HIDE DEF q2
<1>10. ASSUME NEW p \in Nodes, UpIn(nd, n, p)
       PROVE  Agree(q2[<<n, p>>], k[<<p, n>>], nd2[p].rx[n], nd2[n].sent[p], nd2[n].unacked[p], nd2[n].fd)
  <2> DEFINE c == q[<<n, p>>]  kk == k[<<p, n>>]  e == nd[p].rx[n]
  <2>1. /\ c \in Seq(Messages) /\ kk \in Nat /\ e \in Entries \cup {None}
        /\ r.unacked[p] \in Nat /\ u.unacked[p] \in Nat
    BY SMTT(60), <1>0, <1>1 DEF Pairs, NodeStates
  <2>2. Agree(c, kk, e, r.sent[p], r.unacked[p], r.fd)
    BY <1>10 DEF NetInv
  <2> HIDE DEF c, kk, e
  <2>3. SUFFICES Agree(c \o u.out[p], kk, e, u.sent[p], u.unacked[p], u.fd)
    BY ZenonT(60), <1>2, <1>3, <1>4, <1>9, <1>10 DEF c, kk, e
  <2>4. ASSUME NEW base \in Seq(Messages), Relayed(r, u, p, base),
               \/ base = <<>> \/ \E x \in Adverts \cup {Held, None} : base = <<Route(x)>>,
               Agree(c \o base, kk, e, u.sent[p], u.unacked[p], u.fd)
        PROVE  Agree(c \o u.out[p], kk, e, u.sent[p], u.unacked[p], u.fd)
    <3>1. CASE u.out[p] = base
      BY SMTT(60), <3>1, <2>4
    <3>2. ASSUME NEW s \in Nat, u.out[p] = Append(base, Request(s))
          PROVE  Agree(c \o u.out[p], kk, e, u.sent[p], u.unacked[p], u.fd)
      <4>1. c \o u.out[p] = Append(c \o base, Request(s))
        BY <2>1, <2>4, <3>2, MessageKinds, ConcatRelayed
      <4>2. c \o base \in Seq(Messages)
        BY SMTT(60), <2>1, <2>4
      <4> QED BY ZenonT(60), <4>1, <4>2, <2>1, <2>4, AgreeRequest
    <3> QED BY <3>1, <3>2, <2>4 DEF Relayed
  <2>5. CASE /\ u.sent[p] = r.sent[p] /\ u.unacked[p] = r.unacked[p]
             /\ Relayed(r, u, p, <<>>)
    <3>1. Agree(c, kk, e, u.sent[p], u.unacked[p], u.fd)
      <4>1. CASE Remembers(r.fd, u.fd)
        BY <4>1, <2>1, <2>2, <2>5, AgreeRemembers
      <4>2. CASE u.sent[p] = None /\ u.unacked[p] = 0
        BY SMTT(60), <4>2, <2>1, <2>2, <2>5, AgreeDrained
      <4> QED BY <4>1, <4>2, <1>1
    <3>2. c \o <<>> = c /\ <<>> \in Seq(Messages)
      BY SMTT(60), <2>1
    <3> QED BY ZenonT(60), <3>1, <3>2, <2>4, <2>5
  <2>6. ASSUME NEW x \in Adverts \cup {Held, None},
               u.sent[p] = x,
               u.unacked[p] = r.unacked[p] + IF x = None THEN 1 ELSE 0,
               Relayed(r, u, p, <<Route(x)>>),
               x \in Adverts => ~FeasibleFrom(u.fd, x)
        PROVE  Agree(c \o u.out[p], kk, e, u.sent[p], u.unacked[p], u.fd)
    <3>1. Remembers(r.fd, u.fd)
      BY <2>1, <2>6, <1>1
    <3>2. Agree(c, kk, e, r.sent[p], r.unacked[p], u.fd)
      BY SMTT(60), <3>1, <2>1, <2>2, AgreeRemembers
    <3>3. Agree(Append(c, Route(x)), kk, e, x, r.unacked[p] + IF x = None THEN 1 ELSE 0, u.fd)
      BY SMTT(60), <3>2, <2>1, <2>6, AgreeRoute
    <3>4. Route(x) \in Messages
      BY MessageKinds
    <3>5. c \o <<Route(x)>> = Append(c, Route(x)) /\ <<Route(x)>> \in Seq(Messages)
      BY SMTT(60), <2>1, <3>4, ConcatRelayed
    <3> QED BY Zenon, <3>3, <3>5, <2>4, <2>6
  <2> QED BY Zenon, <1>1, <2>5, <2>6 DEF UpdateAnswer
<1>11. ASSUME NEW m \in Nodes, NEW p \in Nodes, m # n, UpIn(nd, m, p)
       PROVE  Agree(q2[<<m, p>>], k[<<p, m>>], nd2[p].rx[m], nd2[m].sent[p], nd2[m].unacked[p], nd2[m].fd)
  <2>1. Agree(q[<<m, p>>], k[<<p, m>>], nd[p].rx[m], nd[m].sent[p], nd[m].unacked[p], nd[m].fd)
    BY <1>11 DEF NetInv
  <2> QED BY SMTT(60), <2>1, <1>3, <1>4, <1>8, <1>11
<1>12. ASSUME NEW m \in Nodes, NEW p \in Nodes, ~UpIn(nd, m, p)
       PROVE  q2[<<m, p>>] = <<>> /\ k[<<m, p>>] = 0
  BY ZenonT(60), <1>8, <1>12 DEF NetInv
<1>13. \A m \in Nodes : Sane(nd2[m]) /\ Silent(nd2[m]) /\ m \notin nd2[m].peers
  BY SMTT(60), <1>0, <1>2, <1>3, <1>4
<1>14. \A m, p \in Nodes : nd2[m].link[p] # None => nd2[p].link[m] # None
  BY SMTT(60), <1>0, <1>4
<1>15. \A m, p \in Nodes :
          IF UpIn(nd2, m, p)
          THEN Agree(q2[<<m, p>>], k[<<p, m>>], nd2[p].rx[m], nd2[m].sent[p], nd2[m].unacked[p], nd2[m].fd)
          ELSE q2[<<m, p>>] = <<>> /\ k[<<m, p>>] = 0
  BY ZenonT(60), <1>5, <1>10, <1>11, <1>12
<1>16. NetInv(nd2, q2, k)
  BY SMTT(60), <1>0, <1>3, <1>7, <1>13, <1>14, <1>15 DEF NetInv
<1> QED BY <1>16 DEF nd2, q2, u

-----------------------------------------------------------------------------

\* Of two ranks that differ, one precedes the other.
LEMMA RanksDiffer ==
    ASSUME NEW a \in Int, NEW b \in Int, NEW c \in Int, NEW d \in Int,
           NEW e \in Int, NEW f \in Int, NEW g \in Int, NEW h \in Int,
           ~Precedes(<<a, b, c, d>>, <<e, f, g, h>>), ~Precedes(<<e, f, g, h>>, <<a, b, c, d>>)
    PROVE  d = h
<1> DEFINE s == <<a, b, c, d>>  t == <<e, f, g, h>>
<1>1. DOMAIN s = 1..4 /\ DOMAIN t = 1..4
  OBVIOUS
<1>2. /\ s[1] = a /\ s[2] = b /\ s[3] = c /\ s[4] = d
      /\ t[1] = e /\ t[2] = f /\ t[3] = g /\ t[4] = h
  OBVIOUS
<1> HIDE DEF s, t
<1>3. ASSUME NEW i \in 1..4, s[i] \in Int, t[i] \in Int, \A j \in 1..(i - 1) : s[j] = t[j]
      PROVE  s[i] = t[i]
  <2>1. ~(s[i] < t[i]) /\ ~(t[i] < s[i])
    BY Zenon, <1>1, <1>3 DEF Precedes, s, t
  <2> QED BY <1>3, <2>1
<1>4. s[1] = t[1]
  BY <1>2, <1>3
<1>5. s[2] = t[2]
  <2>1. \A j \in 1..(2 - 1) : s[j] = t[j]
    BY <1>4
  <2> QED BY <1>2, <1>3, <2>1
<1>6. s[3] = t[3]
  <2>1. \A j \in 1..(3 - 1) : s[j] = t[j]
    BY <1>4, <1>5
  <2> QED BY <1>2, <1>3, <2>1
<1>7. s[4] = t[4]
  <2>1. \A j \in 1..(4 - 1) : s[j] = t[j]
    BY <1>4, <1>5, <1>6
  <2> QED BY <1>2, <1>3, <2>1
<1> QED BY Zenon, <1>2, <1>7

\* The same for the ranks of infeasible.
LEMMA MetricsDiffer ==
    ASSUME NEW a \in Int, NEW b \in Int, NEW c \in Int, NEW d \in Int,
           ~Precedes(<<a, b>>, <<c, d>>), ~Precedes(<<c, d>>, <<a, b>>)
    PROVE  b = d
<1> DEFINE s == <<a, b>>  t == <<c, d>>
<1>1. DOMAIN s = 1..2 /\ DOMAIN t = 1..2
  OBVIOUS
<1>2. s[1] = a /\ s[2] = b /\ t[1] = c /\ t[2] = d
  OBVIOUS
<1> HIDE DEF s, t
<1>3. ASSUME NEW i \in 1..2, s[i] \in Int, t[i] \in Int, \A j \in 1..(i - 1) : s[j] = t[j]
      PROVE  s[i] = t[i]
  <2>1. ~(s[i] < t[i]) /\ ~(t[i] < s[i])
    BY Zenon, <1>1, <1>3 DEF Precedes, s, t
  <2> QED BY <1>3, <2>1
<1>4. s[1] = t[1]
  BY <1>2, <1>3
<1>5. s[2] = t[2]
  <2>1. \A j \in 1..(2 - 1) : s[j] = t[j]
    BY <1>4
  <2> QED BY <1>2, <1>3, <2>1
<1> QED BY Zenon, <1>2, <1>5

\* The best neighbour is the only one that none precedes: ties go to the smaller key.
LEMMA BestIs ==
    ASSUME Counting, NEW r \in NodeStates, Sane(r), NEW S \in SUBSET Heard(r, FALSE), NEW p \in S,
           \A q \in S : ~Precedes(Rank(r, q), Rank(r, p))
    PROVE  Best(r, S) = p
<1> DEFINE o == Best(r, S)
<1>1. o \in S /\ \A q \in S : ~Precedes(Rank(r, q), Rank(r, o))
  BY Zenon, BestIn
<1> HIDE DEF o
<1>2. ~Precedes(Rank(r, o), Rank(r, p)) /\ ~Precedes(Rank(r, p), Rank(r, o))
  BY Zenon, <1>1
<1>3. ASSUME NEW q \in S
      PROVE  q \in Int /\ Through(r, q) \in Int /\ 127 - r.link[q].priority \in Int
             /\ (IF q \in r.draining THEN 1 ELSE 0) \in Int
  <2>1. q \in Nodes /\ r.link[q] \in Links /\ Through(r, q) \in Nat
    BY Zenon, HeardType
  <2>2. r.link[q].priority \in -128..127
    BY Zenon, <2>1 DEF Links
  <2>3. q \in Nat
    BY Zenon, <2>1, RouterAssumption
  <2> DEFINE x == r.link[q].priority
  <2>4. x \in Int
    BY <2>2
  <2> HIDE DEF x
  <2>5. 127 - x \in Int
    BY <2>4
  <2> QED BY <2>1, <2>3, <2>5 DEF x
<1> DEFINE A(q) == IF q \in r.draining THEN 1 ELSE 0
           B(q) == 127 - r.link[q].priority
<1>4. \A q \in S : Rank(r, q) = <<A(q), B(q), Through(r, q), q>>
  BY Zenon DEF Rank
<1>5. \A q \in S : q \in Int /\ Through(r, q) \in Int /\ A(q) \in Int /\ B(q) \in Int
  BY Zenon, <1>3
<1> HIDE DEF A, B
<1>6. /\ ~Precedes(<<A(o), B(o), Through(r, o), o>>, <<A(p), B(p), Through(r, p), p>>)
      /\ ~Precedes(<<A(p), B(p), Through(r, p), p>>, <<A(o), B(o), Through(r, o), o>>)
  BY Zenon, <1>1, <1>2, <1>4
<1>7. o = p
  BY Zenon, <1>1, <1>5, <1>6, RanksDiffer
<1> QED BY Zenon, <1>7 DEF o

\* So is the closest one.
LEMMA ClosestIs ==
    ASSUME Counting, NEW r \in NodeStates, Sane(r), NEW S \in SUBSET Heard(r, FALSE), NEW p \in S,
           \A q \in S : ~Precedes(<<Through(r, q), q>>, <<Through(r, p), p>>)
    PROVE  Closest(r, S) = p
<1> DEFINE o == Closest(r, S)
<1>1. o \in S /\ \A q \in S : ~Precedes(<<Through(r, q), q>>, <<Through(r, o), o>>)
  BY Zenon, ClosestIn
<1> HIDE DEF o
<1>2. /\ ~Precedes(<<Through(r, o), o>>, <<Through(r, p), p>>)
      /\ ~Precedes(<<Through(r, p), p>>, <<Through(r, o), o>>)
  BY Zenon, <1>1
<1>3. ASSUME NEW q \in S PROVE q \in Int /\ Through(r, q) \in Int
  <2>1. q \in Nodes /\ Through(r, q) \in Nat
    BY Zenon, HeardType
  <2>2. q \in Nat
    BY Zenon, <2>1, RouterAssumption
  <2> QED BY <2>1, <2>2
<1>4. o = p
  BY Zenon, <1>1, <1>2, <1>3, MetricsDiffer
<1> QED BY Zenon, <1>4 DEF o

\* What selection looks at is the same in u as in r.
SameView(r, u) ==
    /\ u.link = r.link /\ u.origin = r.origin /\ u.rx = r.rx /\ u.fd = r.fd
    /\ \A p \in Nodes : r.rx[p] # None => (p \in u.draining <=> p \in r.draining)

\* The routes heard depend on the entries and the links only.
LEMMA SameHeard ==
    ASSUME NEW r, NEW u, u.link = r.link, u.rx = r.rx
    PROVE  /\ \A p : Through(u, p) = Through(r, p)
           /\ \A h : Heard(u, h) = Heard(r, h)
<1>1. \A p : Through(u, p) = Through(r, p)
  BY Zenon DEF Through
<1>2. ASSUME NEW h PROVE Heard(u, h) = Heard(r, h)
  BY <1>1 DEF Heard
<1> QED BY Zenon, <1>1, <1>2

\* Nodes with the same view select the same route and ask the same neighbour.
LEMMA SameChoice ==
    ASSUME Counting, NEW r \in NodeStates, Sane(r), NEW u \in NodeStates, Sane(u), SameView(r, u)
    PROVE  /\ Usable(u) = Usable(r) /\ Infeasible(u) = Infeasible(r)
           /\ Recoverable(u) = Recoverable(r)
           /\ Selected(u) = Selected(r) /\ Target(u) = Target(r)
           /\ Starved(u) <=> Starved(r)
           /\ Live(u) <=> Live(r)
<1>0. u.link = r.link /\ u.origin = r.origin /\ u.rx = r.rx /\ u.fd = r.fd
  BY Zenon DEF SameView
<1>1. /\ \A p : Through(u, p) = Through(r, p)
      /\ \A h : Heard(u, h) = Heard(r, h)
  BY Zenon, <1>0, SameHeard
<1>2. \A p : Feasible(u, p) <=> Feasible(r, p)
  BY Zenon, <1>0 DEF Feasible
<1>3. /\ Usable(u) = Usable(r) /\ Infeasible(u) = Infeasible(r)
      /\ Recoverable(u) = Recoverable(r)
  <2>1. Heard(u, FALSE) = Heard(r, FALSE) /\ Heard(u, TRUE) = Heard(r, TRUE)
    BY Zenon, <1>1
  <2>2. Usable(u) = Usable(r)
    BY Zenon, <1>2, <2>1 DEF Usable
  <2>3. Infeasible(u) = Infeasible(r)
    BY Zenon, <1>2, <2>1 DEF Infeasible
  <2>4. Recoverable(u) = Recoverable(r)
    BY Zenon, <1>2, <2>1 DEF Recoverable
  <2> QED BY Zenon, <2>2, <2>3, <2>4
<1>4. ASSUME NEW q \in Heard(r, FALSE) PROVE Rank(u, q) = Rank(r, q)
  <2>1. q \in u.draining <=> q \in r.draining
    BY Zenon DEF SameView, Heard
  <2>2. CASE q \in r.draining
    BY Zenon, <1>0, <1>1, <2>1, <2>2 DEF Rank
  <2>3. CASE q \notin r.draining
    BY Zenon, <1>0, <1>1, <2>1, <2>3 DEF Rank
  <2> QED BY Zenon, <2>2, <2>3
<1>5. ASSUME Usable(r) # {} PROVE Best(u, Usable(u)) = Best(r, Usable(r))
  <2> DEFINE S == Usable(r)  p == Best(r, S)
  <2>1. S \in SUBSET Heard(r, FALSE) /\ S \in SUBSET Heard(u, FALSE)
    BY Zenon, <1>1 DEF Usable
  <2>2. p \in S /\ \A q \in S : ~Precedes(Rank(r, q), Rank(r, p))
    BY Zenon, <1>5, <2>1, BestIn
  <2>3. \A q \in S : Rank(u, q) = Rank(r, q)
    BY Zenon, <1>4, <2>1
  <2> HIDE DEF S, p
  <2>4. \A q \in S : ~Precedes(Rank(u, q), Rank(u, p))
    BY Zenon, <2>2, <2>3
  <2>5. Best(u, S) = p
    BY Zenon, <2>1, <2>2, <2>4, BestIs
  <2> QED BY Zenon, <1>3, <2>5 DEF S, p
<1>6. ASSUME Infeasible(r) # {} PROVE Closest(u, Infeasible(u)) = Closest(r, Infeasible(r))
  <2> DEFINE S == Infeasible(r)  p == Closest(r, S)
  <2>1. S \in SUBSET Heard(r, FALSE) /\ S \in SUBSET Heard(u, FALSE)
    BY Zenon, <1>1 DEF Infeasible
  <2>2. p \in S /\ \A q \in S : ~Precedes(<<Through(r, q), q>>, <<Through(r, p), p>>)
    BY Zenon, <1>6, <2>1, ClosestIn
  <2> HIDE DEF S, p
  <2>4. \A q \in S : ~Precedes(<<Through(u, q), q>>, <<Through(u, p), p>>)
    BY <2>2, <1>1
  <2>5. Closest(u, S) = p
    BY Zenon, <2>1, <2>2, <2>4, ClosestIs
  <2> QED BY Zenon, <1>3, <2>5 DEF S, p
<1>7. Selected(u) = Selected(r)
  <2>1. CASE r.origin # None
    BY Zenon, <1>0, <2>1 DEF Selected
  <2>2. CASE r.origin = None /\ Usable(r) = {}
    BY Zenon, <1>0, <1>3, <2>2 DEF Selected
  <2>3. CASE r.origin = None /\ Usable(r) # {}
    <3>1. PICK p : p = Best(r, Usable(r))
      BY Zenon
    <3>2. Best(u, Usable(u)) = p
      BY Zenon, <1>5, <2>3, <3>1
    <3>3. Selected(r) = [next |-> p, seqno |-> r.rx[p].advert.seqno, metric |-> Through(r, p),
                         down |-> r.link[p].upstream \/ r.rx[p].advert.down]
      BY Zenon, <2>3, <3>1 DEF Selected
    <3>4. Selected(u) = [next |-> p, seqno |-> u.rx[p].advert.seqno, metric |-> Through(u, p),
                         down |-> u.link[p].upstream \/ u.rx[p].advert.down]
      BY Zenon, <1>0, <1>3, <2>3, <3>2 DEF Selected
    <3> QED BY Zenon, <1>0, <1>1, <3>3, <3>4
  <2> QED BY Zenon, <2>1, <2>2, <2>3
<1>8. Target(u) = Target(r)
  BY Zenon, <1>3, <1>6, <1>7 DEF Target
<1> QED BY Zenon, <1>3, <1>7, <1>8 DEF Starved, Live

\* advertise selects before it records: the route it selected is still the one selected
\* against the distance it recorded for it.
LEMMA RecordKeepsSelected ==
    ASSUME Counting, NEW r \in NodeStates, Sane(r), Selected(r) # None,
           NEW u \in NodeStates, Sane(u), u.link = r.link, u.origin = r.origin, u.rx = r.rx,
           u.draining = r.draining, u.fd = Record(r.fd, Selected(r))
    PROVE  Selected(u) = Selected(r)
<1> DEFINE sel == Selected(r)
<1>1. CASE r.origin # None
  BY Zenon, <1>1 DEF Selected
<1>2. CASE r.origin = None
  <2>1. Usable(r) # {}
    BY Zenon, <1>2 DEF Selected
  <2>2. PICK p : p = Best(r, Usable(r))
    BY Zenon
  <2>3. sel = [next |-> p, seqno |-> r.rx[p].advert.seqno, metric |-> Through(r, p),
               down |-> r.link[p].upstream \/ r.rx[p].advert.down]
    BY Zenon, <1>2, <2>1, <2>2 DEF Selected
  <2>4. sel \in Selections /\ r.fd \in Distances \cup {None}
    BY Zenon, SelectedType DEF NodeStates
  <2>5. Usable(r) \in SUBSET Heard(r, FALSE)
    BY Zenon DEF Usable
  <2>6. p \in Usable(r) /\ \A q \in Usable(r) : ~Precedes(Rank(r, q), Rank(r, p))
    BY Zenon, <2>1, <2>2, <2>5, BestIn
  <2>7. /\ \A q : Through(u, q) = Through(r, q)
        /\ \A h : Heard(u, h) = Heard(r, h)
    BY Zenon, SameHeard
  <2>8. \A q : Rank(u, q) = Rank(r, q)
    BY Zenon, <2>7 DEF Rank
  <2>9. Remembers(r.fd, u.fd) /\ u.fd \in Distances
    BY Zenon, <2>4, RecordOK
  <2>10. Usable(u) \subseteq Usable(r)
    <3> SUFFICES ASSUME NEW q \in Usable(u) PROVE q \in Usable(r)
      BY Zenon
    <3>1. q \in Heard(r, FALSE) /\ FeasibleFrom(u.fd, r.rx[q].advert)
      BY Zenon, <2>7 DEF Usable, Feasible
    <3>2. r.rx[q].advert \in Adverts
      BY Zenon, <3>1, HeardType DEF Entries
    <3>3. FeasibleFrom(r.fd, r.rx[q].advert)
      BY Zenon, <2>9, <3>1, <3>2 DEF Remembers
    <3> QED BY Zenon, <3>1, <3>3 DEF Usable, Feasible
  <2>11. p \in Usable(u)
    <3>1. p \in Heard(r, FALSE) /\ FeasibleFrom(r.fd, r.rx[p].advert)
      BY Zenon, <2>6 DEF Usable, Feasible
    <3>2. r.rx[p] \in Entries /\ r.link[p] \in Links
      BY Zenon, <3>1, HeardType
    <3>3. PICK a : a = r.rx[p].advert
      BY Zenon
    <3>4. a.seqno \in Nat /\ a.metric \in Nat /\ r.link[p].cost \in Nat \ {0}
      BY Zenon, <3>2, <3>3 DEF Entries, Adverts, Links
    <3>5. sel.seqno = a.seqno /\ sel.metric = a.metric + r.link[p].cost
      BY <2>3, <3>3 DEF Through
    <3>6. FeasibleFrom(u.fd, a)
      <4>1. CASE FeasibleFrom(r.fd, sel)
        <5>1. u.fd = [seqno |-> sel.seqno, metric |-> sel.metric]
          BY Zenon, <4>1 DEF Record
        <5>2. u.fd.seqno = sel.seqno /\ u.fd.metric = sel.metric
          BY <5>1
        <5>3. a.seqno = u.fd.seqno /\ a.metric < u.fd.metric
          BY <3>4, <3>5, <5>2
        <5> QED BY Zenon, <5>3 DEF FeasibleFrom
      <4>2. CASE ~FeasibleFrom(r.fd, sel)
        BY Zenon, <4>2, <3>1, <3>3 DEF Record
      <4> QED BY Zenon, <4>1, <4>2
    <3> QED BY Zenon, <3>1, <3>3, <3>6, <2>7 DEF Usable, Feasible
  <2>12. Best(u, Usable(u)) = p
    <3>1. Usable(u) \in SUBSET Heard(u, FALSE)
      BY Zenon DEF Usable
    <3>2. \A q \in Usable(u) : ~Precedes(Rank(u, q), Rank(u, p))
      BY <2>6, <2>8, <2>10
    <3> QED BY Zenon, <2>11, <3>1, <3>2, BestIs
  <2>13. Usable(u) # {}
    BY Zenon, <2>11
  <2>14. Selected(u) = [next |-> p, seqno |-> u.rx[p].advert.seqno, metric |-> Through(u, p),
                        down |-> u.link[p].upstream \/ u.rx[p].advert.down]
    BY Zenon, <1>2, <2>12, <2>13 DEF Selected
  <2> QED BY Zenon, <2>3, <2>7, <2>14
<1> QED BY Zenon, <1>1, <1>2

\* What requests makes of the pending request, and when it lets it go.
Wanted(r) == IF Starved(r) THEN Wanting(r.pending, r.fd.seqno + 1) ELSE r.pending
Settles(r, w) ==
    \/ r.origin # None
    \/ Selected(r) # None /\ Selected(r).seqno >= w.seqno
    \/ w.from = {} /\ ~Starved(r)
    \/ Target(r) = None

\* A starved node wants a seqno past its distance's and has a neighbour to ask for it.
LEMMA WantedOK ==
    ASSUME Counting, NEW r \in NodeStates, Sane(r)
    PROVE  /\ Wanted(r) \in Pendings \cup {None}
           /\ Starved(r) => /\ r.fd \in Distances
                            /\ Wanted(r) \in Pendings /\ Wanted(r).seqno >= r.fd.seqno + 1
                            /\ ~Settles(r, Wanted(r))
<1>1. CASE ~Starved(r)
  <2>1. Wanted(r) = r.pending
    BY Zenon, <1>1 DEF Wanted
  <2>2. r.pending \in Pendings \cup {None}
    BY Zenon DEF NodeStates
  <2> QED BY Zenon, <1>1, <2>1, <2>2
<1>2. CASE Starved(r)
  <2>0. Selected(r) = None /\ Infeasible(r) # {}
    BY Zenon, <1>2 DEF Starved
  <2>1. r.fd # None
    BY Zenon, <2>0 DEF Infeasible, Feasible, FeasibleFrom
  <2>2. r.fd \in Distances /\ r.pending \in Pendings \cup {None}
    BY Zenon, <2>1 DEF NodeStates
  <2>3. r.fd.seqno \in Nat
    BY Zenon, <2>2 DEF Distances
  <2>4. PICK s : s = r.fd.seqno + 1
    BY Zenon
  <2>5. s \in Nat
    BY <2>3, <2>4
  <2>6. Wanted(r) = Wanting(r.pending, s)
    BY Zenon, <1>2, <2>4 DEF Wanted
  <2>7. Wanted(r) \in Pendings
    BY Zenon, <2>2, <2>5, <2>6, WantingType
  <2>8. Wanted(r).seqno >= s
    <3>1. CASE r.pending = None
      <4>1. Wanted(r) = [seqno |-> s, from |-> {}, asked |-> None]
        BY Zenon, <2>6, <3>1 DEF Wanting
      <4> QED BY <4>1, <2>5
    <3>2. CASE r.pending # None
      <4>1. r.pending \in Pendings /\ r.pending.seqno \in Nat
        BY Zenon, <2>2, <3>2 DEF Pendings
      <4>2. CASE r.pending.seqno < s
        <5>1. Wanted(r) = [r.pending EXCEPT !.seqno = s, !.asked = None]
          BY Zenon, <2>6, <3>2, <4>2 DEF Wanting
        <5>2. Wanted(r).seqno = s
          BY <4>1, <5>1 DEF Pendings
        <5> QED BY <5>2, <2>5
      <4>3. CASE ~(r.pending.seqno < s)
        <5>1. Wanted(r) = r.pending
          BY Zenon, <2>6, <3>2, <4>3 DEF Wanting
        <5> QED BY <5>1, <4>1, <4>3, <2>5
      <4> QED BY Zenon, <4>2, <4>3
    <3> QED BY Zenon, <3>1, <3>2
  <2>9. r.origin = None
    <3>1. CASE r.origin # None
      <4>1. Selected(r) = [next |-> None, seqno |-> r.origin, metric |-> 0, down |-> FALSE]
        BY Zenon, <3>1 DEF Selected
      <4>2. r.origin \in Nat
        BY Zenon, <3>1 DEF NodeStates
      <4>3. Selected(r) \in Selections
        BY <4>1, <4>2 DEF Selections
      <4> QED BY Zenon, <4>3, <2>0, RouterAssumption
    <3> QED BY Zenon, <3>1
  <2>10. Target(r) # None
    <3>1. Infeasible(r) \in SUBSET Heard(r, FALSE)
      BY Zenon DEF Infeasible
    <3>2. Closest(r, Infeasible(r)) \in Nodes
      BY Zenon, <2>0, <3>1, ClosestIn, HeardType
    <3>3. Target(r) \in Nodes
      BY Zenon, <2>0, <3>2 DEF Target
    <3> QED BY Zenon, <3>3, RouterAssumption
  <2>11. ~Settles(r, Wanted(r))
    BY Zenon, <1>2, <2>0, <2>9, <2>10 DEF Settles
  <2> QED BY Zenon, <2>2, <2>4, <2>7, <2>8, <2>11
<1> QED BY Zenon, <1>1, <1>2

\* requests, case by case.
LEMMA RequestsCases ==
    ASSUME Counting, NEW r \in NodeStates, Sane(r)
    PROVE  LET w == Wanted(r) IN
           \/ /\ w = None \/ Settles(r, w)
              /\ Requests(r) = [r EXCEPT !.pending = None]
           \/ /\ w \in Pendings /\ ~Settles(r, w) /\ w.asked = Target(r)
              /\ Requests(r) = [r EXCEPT !.pending = w]
           \/ /\ w \in Pendings /\ ~Settles(r, w) /\ Target(r) \in Nodes
              /\ Requests(r) = [r EXCEPT !.pending = [w EXCEPT !.asked = Target(r)],
                                         !.out[Target(r)] = Append(@, Request(w.seqno))]
<1>1. PICK w : w = Wanted(r)
  BY Zenon
<1>2. w = IF Starved(r) THEN Wanting(r.pending, r.fd.seqno + 1) ELSE r.pending
  BY Zenon, <1>1 DEF Wanted
<1>3. w \in Pendings \cup {None} /\ Target(r) \in Nodes \cup {None}
  BY Zenon, <1>1, WantedOK, TargetType
<1>4. CASE w = None \/ Settles(r, w)
  <2>1. Requests(r) = [r EXCEPT !.pending = None]
    BY Zenon, <1>2, <1>4 DEF Requests, Settles
  <2> QED BY Zenon, <1>1, <1>4, <2>1
<1>5. CASE ~(w = None \/ Settles(r, w)) /\ w.asked = Target(r)
  <2>1. Requests(r) = [r EXCEPT !.pending = w]
    BY Zenon, <1>2, <1>5 DEF Requests, Settles
  <2> QED BY Zenon, <1>1, <1>3, <1>5, <2>1
<1>6. CASE ~(w = None \/ Settles(r, w)) /\ w.asked # Target(r)
  <2>1. Requests(r) = [r EXCEPT !.pending = [w EXCEPT !.asked = Target(r)],
                                !.out[Target(r)] = Append(@, Request(w.seqno))]
    BY Zenon, <1>2, <1>6 DEF Requests, Settles
  <2>2. Target(r) \in Nodes
    BY Zenon, <1>3, <1>6 DEF Settles
  <2> QED BY Zenon, <1>1, <1>3, <1>6, <2>1, <2>2
<1> QED BY Zenon, <1>4, <1>5, <1>6

\* A node with the pending request requests left has nothing more to ask.
LEMMA RequestsStable ==
    ASSUME Counting, NEW r \in NodeStates, Sane(r), NEW u \in NodeStates, Sane(u), SameView(r, u),
           u.pending = Requests(r).pending
    PROVE  Requests(u) = u
<1> DEFINE t == Target(r)
<1>0. /\ Selected(u) = Selected(r) /\ Target(u) = t /\ (Starved(u) <=> Starved(r))
      /\ u.origin = r.origin /\ u.fd = r.fd
  BY Zenon, SameChoice DEF SameView
<1>1. PICK w : w = Wanted(r)
  BY Zenon
<1>2. /\ w \in Pendings \cup {None}
      /\ Starved(r) => /\ r.fd \in Distances /\ w \in Pendings /\ w.seqno >= r.fd.seqno + 1
                       /\ ~Settles(r, w)
  BY Zenon, <1>1, WantedOK
<1>3. [u EXCEPT !.pending = u.pending] = u
  BY DEF NodeStates
<1>4. CASE (w = None \/ Settles(r, w)) /\ Requests(r) = [r EXCEPT !.pending = None]
  <2>1. u.pending = None
    BY Zenon, <1>4 DEF NodeStates
  <2>2. ~Starved(u)
    BY Zenon, <1>0, <1>2, <1>4, RouterAssumption
  <2>3. Wanted(u) = None
    BY Zenon, <2>1, <2>2 DEF Wanted
  <2>4. Requests(u) = [u EXCEPT !.pending = None]
    BY Zenon, <2>1, <2>2, RouterAssumption DEF Requests
  <2> QED BY Zenon, <1>3, <2>1, <2>4
<1>5. ASSUME w \in Pendings, ~Settles(r, w), NEW np \in Pendings, np.seqno = w.seqno,
             np.from = w.from, np.asked = t, u.pending = np
      PROVE  Requests(u) = u
  <2>1. np # None
    BY Zenon, <1>5, RouterAssumption
  <2>2. Wanted(u) = np
    <3>1. CASE ~Starved(u)
      BY Zenon, <1>5, <3>1 DEF Wanted
    <3>2. CASE Starved(u)
      <4>1. r.fd.seqno \in Nat /\ np.seqno \in Nat
        BY Zenon, <1>0, <1>2, <3>2 DEF Distances, Pendings
      <4>2. ~(np.seqno < r.fd.seqno + 1)
        BY <4>1, <1>0, <1>2, <1>5, <3>2
      <4>3. Wanting(np, r.fd.seqno + 1) = np
        BY Zenon, <2>1, <4>2 DEF Wanting
      <4> QED BY Zenon, <1>0, <1>5, <3>2, <4>3 DEF Wanted
    <3> QED BY Zenon, <3>1, <3>2
  <2>3. ~Settles(u, np)
    BY Zenon, <1>0, <1>5 DEF Settles
  <2>4. Requests(u) = [u EXCEPT !.pending = np]
    <3>1. np = IF Starved(u) THEN Wanting(u.pending, u.fd.seqno + 1) ELSE u.pending
      BY Zenon, <2>2 DEF Wanted
    <3> QED BY Zenon, <1>0, <1>5, <2>1, <2>3, <3>1 DEF Requests, Settles
  <2> QED BY Zenon, <1>3, <1>5, <2>4
<1>6. CASE w \in Pendings /\ ~Settles(r, w) /\ w.asked = t /\ Requests(r) = [r EXCEPT !.pending = w]
  <2>1. u.pending = w
    BY Zenon, <1>6 DEF NodeStates
  <2> QED BY Zenon, <1>5, <1>6, <2>1
<1>7. CASE /\ w \in Pendings /\ ~Settles(r, w) /\ t \in Nodes
           /\ Requests(r) = [r EXCEPT !.pending = [w EXCEPT !.asked = t],
                                      !.out[t] = Append(@, Request(w.seqno))]
  <2>1. PICK np : np = [w EXCEPT !.asked = t]
    BY Zenon
  <2>2. np \in Pendings /\ np.seqno = w.seqno /\ np.from = w.from /\ np.asked = t
    BY Zenon, <1>7, <2>1 DEF Pendings
  <2>3. u.pending = np
    BY Zenon, <1>7, <2>1 DEF NodeStates
  <2> QED BY Zenon, <1>5, <1>7, <2>2, <2>3
<1> QED BY Zenon, <1>1, <1>4, <1>6, <1>7, RequestsCases

\* What neighbour p is to be told when t decides liveness.
Said(r, p, sel, t) == Reach(r, p, sel, Live(t))

\* A node whose update would do nothing: its distance covers what it tells, every watching
\* neighbour was told what it is to be told, a drained node keeps no distance, and the
\* pending request stands.
Quiet(r) ==
    LET sel == Selected(r) IN
    /\ sel # None /\ (\E p \in r.streams : Exports(r, p, sel)) => Record(r.fd, sel) = r.fd
    /\ \A p \in r.streams : r.sent[p] = Said(r, p, sel, r)
    /\ Drained(r) => r.fd = None
    /\ Requests(r).pending = r.pending

\* So it does nothing.
LEMMA QuietUpdate ==
    ASSUME Counting, NEW r \in NodeStates, Sane(r), Quiet(r)
    PROVE  Update(r) = r
<1>1. PICK sel : sel = Selected(r)
  BY Zenon
<1>2. /\ sel # None /\ (\E p \in r.streams : Exports(r, p, sel)) => Record(r.fd, sel) = r.fd
      /\ \A p \in r.streams : r.sent[p] = Said(r, p, sel, r)
      /\ Drained(r) => r.fd = None
      /\ Requests(r).pending = r.pending
  BY Zenon, <1>1 DEF Quiet
<1>3. Recorded(r, sel) = r
  <2>1. [r EXCEPT !.fd = r.fd] = r
    BY DEF NodeStates
  <2> QED BY Zenon, <1>2, <2>1 DEF Recorded
<1>4. Advertise(r) = r
  <2> DEFINE reach == [p \in r.streams |-> Said(r, p, sel, r)]
  <2>1. Advertise(r) = Tell(r, reach)
    BY Zenon, <1>1, <1>3 DEF Advertise, Said
  <2>2. {p \in r.streams : reach[p] # r.sent[p]} = {}
    BY Zenon, <1>2
  <2> HIDE DEF reach
  <2>3. Tell(r, reach) = [r EXCEPT !.sent = [p \in Nodes |-> r.sent[p]],
                                   !.unacked = [p \in Nodes |-> r.unacked[p]],
                                   !.out = [p \in Nodes |-> r.out[p]]]
    BY Zenon, <2>2 DEF Tell
  <2>4. /\ [p \in Nodes |-> r.sent[p]] = r.sent /\ [p \in Nodes |-> r.unacked[p]] = r.unacked
        /\ [p \in Nodes |-> r.out[p]] = r.out
    BY DEF NodeStates
  <2>5. [r EXCEPT !.sent = r.sent, !.unacked = r.unacked, !.out = r.out] = r
    BY Zenon DEF NodeStates
  <2> QED BY Zenon, <2>1, <2>3, <2>4, <2>5
<1>5. DropDistance(r) = r
  <2>1. [r EXCEPT !.fd = r.fd] = r
    BY DEF NodeStates
  <2> QED BY Zenon, <1>2, <2>1 DEF DropDistance
<1>6. Requests(r) = r
  <2>1. SameView(r, r)
    BY Zenon DEF SameView
  <2> QED BY Zenon, <1>2, <2>1, RequestsStable
<1> QED BY Zenon, <1>4, <1>5, <1>6 DEF Update

\* What advertise records and tells.
LEMMA AdvertiseTells ==
    ASSUME Counting, NEW r \in NodeStates, Sane(r), Silent(r)
    PROVE  LET a == Advertise(r)  sel == Selected(r) IN
           /\ a.fd = Recorded(r, sel).fd
           /\ \A p \in Nodes :
                 /\ a.sent[p] = IF p \in r.streams THEN Said(r, p, sel, Recorded(r, sel))
                                ELSE r.sent[p]
                 /\ a.out[p] = <<>> \/ (p \in r.streams /\ a.out[p] = <<Route(a.sent[p])>>)
<1>1. PICK sel : sel = Selected(r)
  BY Zenon
<1>2. PICK rec : rec = Recorded(r, sel)
  BY Zenon
<1>3. rec \in NodeStates /\ rec.sent = r.sent /\ rec.out = r.out /\ rec.streams = r.streams
  <2>1. CASE sel # None /\ \E p \in r.streams : Exports(r, p, sel)
    <3>1. rec = [r EXCEPT !.fd = Record(r.fd, sel)]
      BY Zenon, <1>2, <2>1 DEF Recorded
    <3>2. r.fd \in Distances \cup {None} /\ sel \in Selections
      BY Zenon, <1>1, <2>1, SelectedType DEF NodeStates
    <3>3. Record(r.fd, sel) \in Distances
      BY Zenon, <3>2, RecordOK
    <3> QED BY Zenon, <3>1, <3>3 DEF NodeStates
  <2>2. CASE ~(sel # None /\ \E p \in r.streams : Exports(r, p, sel))
    BY Zenon, <1>2, <2>2 DEF Recorded
  <2> QED BY Zenon, <2>1, <2>2
<1>4. PICK reach : reach = [p \in r.streams |-> Said(r, p, sel, rec)]
  BY Zenon
<1>5. Advertise(r) = Tell(rec, reach)
  BY Zenon, <1>1, <1>2, <1>4 DEF Advertise, Said
<1>6. PICK changed : changed = {p \in rec.streams : reach[p] # rec.sent[p]}
  BY Zenon
<1>7. Tell(rec, reach) = [rec EXCEPT
       !.sent = [p \in Nodes |-> IF p \in changed THEN reach[p] ELSE rec.sent[p]],
       !.unacked = [p \in Nodes |->
           IF p \in changed /\ reach[p] = None THEN rec.unacked[p] + 1 ELSE rec.unacked[p]],
       !.out = [p \in Nodes |->
           IF p \in changed THEN Append(rec.out[p], Route(reach[p])) ELSE rec.out[p]]]
  BY Zenon, <1>6 DEF Tell
<1>8. PICK a : a = Advertise(r)
  BY Zenon
<1>9. /\ a.fd = rec.fd
      /\ a.sent = [p \in Nodes |-> IF p \in changed THEN reach[p] ELSE rec.sent[p]]
      /\ a.out = [p \in Nodes |-> IF p \in changed THEN Append(rec.out[p], Route(reach[p])) ELSE rec.out[p]]
  BY Zenon, <1>3, <1>5, <1>7, <1>8 DEF NodeStates
<1>10. ASSUME NEW p \in Nodes
       PROVE  /\ a.sent[p] = IF p \in r.streams THEN Said(r, p, sel, rec) ELSE r.sent[p]
              /\ a.out[p] = <<>> \/ (p \in r.streams /\ a.out[p] = <<Route(a.sent[p])>>)
  <2>1. rec.out[p] = <<>>
    BY Zenon, <1>3 DEF Silent
  <2>2. CASE p \in changed
    <3>1. p \in r.streams /\ reach[p] = Said(r, p, sel, rec)
      BY Zenon, <1>3, <1>4, <1>6, <2>2
    <3>2. a.sent[p] = reach[p] /\ a.out[p] = Append(<<>>, Route(reach[p]))
      BY Zenon, <1>9, <2>1, <2>2
    <3>3. a.out[p] = <<Route(reach[p])>>
      BY <3>2
    <3> QED BY Zenon, <3>1, <3>2, <3>3
  <2>3. CASE p \notin changed
    <3>1. a.sent[p] = r.sent[p] /\ a.out[p] = <<>>
      <4>1. a.sent[p] = rec.sent[p] /\ a.out[p] = rec.out[p]
        BY Zenon, <1>9, <2>3
      <4> QED BY Zenon, <1>3, <2>1, <4>1
    <3>2. ASSUME p \in r.streams PROVE r.sent[p] = Said(r, p, sel, rec)
      <4>1. reach[p] = r.sent[p]
        BY Zenon, <1>3, <1>6, <2>3, <3>2
      <4>2. reach[p] = Said(r, p, sel, rec)
        BY Zenon, <1>4, <3>2
      <4> QED BY Zenon, <4>1, <4>2
    <3> QED BY Zenon, <3>1, <3>2
  <2> QED BY Zenon, <2>2, <2>3
<1> QED BY Zenon, <1>1, <1>2, <1>8, <1>9, <1>10

\* What a node tells depends on its links, its own seqno and what it told before.
LEMMA SameReach ==
    ASSUME NEW r, NEW u, u.link = r.link, u.origin = r.origin, NEW p, NEW sel,
           NEW t, Live(u) <=> Live(t),
           u.sent[p] = r.sent[p] \/ u.sent[p] = Said(r, p, sel, t)
    PROVE  Said(u, p, sel, u) = Said(r, p, sel, t)
<1>1. Serves(u, p) <=> Serves(r, p)
  BY Zenon DEF Serves
<1>2. Exports(u, p, sel) <=> Exports(r, p, sel)
  BY Zenon, <1>1 DEF Exports
<1>3. CASE sel # None
  BY Zenon, <1>2, <1>3 DEF Said, Reach
<1>4. CASE sel = None
  <2>1. Said(r, p, sel, t) = IF Serves(r, p) /\ Live(t) /\ r.sent[p] # None THEN Held ELSE None
    BY Zenon, <1>4 DEF Said, Reach
  <2>2. Said(u, p, sel, u) = IF Serves(r, p) /\ Live(t) /\ u.sent[p] # None THEN Held ELSE None
    <3>1. CASE Serves(r, p) /\ Live(t) /\ u.sent[p] # None
      BY Zenon, <1>1, <1>4, <3>1 DEF Said, Reach
    <3>2. CASE ~(Serves(r, p) /\ Live(t) /\ u.sent[p] # None)
      BY Zenon, <1>1, <1>4, <3>2 DEF Said, Reach
    <3> QED BY Zenon, <3>1, <3>2
  <2>3. Held # None
    BY Zenon, RouterAssumption
  <2>4. CASE Serves(r, p) /\ Live(t)
    <3>1. /\ Said(r, p, sel, t) = IF r.sent[p] # None THEN Held ELSE None
          /\ Said(u, p, sel, u) = IF u.sent[p] # None THEN Held ELSE None
      BY Zenon, <2>1, <2>2, <2>4
    <3>2. CASE u.sent[p] = r.sent[p]
      BY <3>1, <3>2
    <3>3. CASE u.sent[p] = Said(r, p, sel, t)
      BY Zenon, <2>3, <3>1, <3>3
    <3> QED BY Zenon, <3>2, <3>3
  <2>5. CASE ~(Serves(r, p) /\ Live(t))
    <3>1. Said(r, p, sel, t) = None /\ Said(u, p, sel, u) = None
      BY Zenon, <2>1, <2>2, <2>5
    <3> QED BY Zenon, <3>1
  <2> QED BY Zenon, <2>4, <2>5
<1> QED BY Zenon, <1>3, <1>4

\* A node without routes selects none and is not live, whatever its distance.
LEMMA NoRoutes ==
    ASSUME NEW r, r.origin = None, \A p \in Nodes : r.rx[p] = None
    PROVE  Selected(r) = None /\ ~Live(r)
<1>1. \A h : Heard(r, h) = {}
  BY Zenon DEF Heard
<1>2. Usable(r) = {} /\ Infeasible(r) = {} /\ Recoverable(r) = {}
  BY Zenon, <1>1 DEF Usable, Infeasible, Recoverable
<1>3. Selected(r) = None
  BY Zenon, <1>2 DEF Selected
<1> QED BY Zenon, <1>2, <1>3 DEF Live

\* update leaves nothing owed.
LEMMA UpdateQuiet ==
    ASSUME Counting, NEW r \in NodeStates, Sane(r), Silent(r)
    PROVE  LET u == Muted(Update(r)) IN u \in NodeStates /\ Sane(u) /\ Silent(u) /\ Quiet(u)
<1>1. PICK a : a = Advertise(r)
  BY Zenon
<1>2. PICK d : d = DropDistance(a)
  BY Zenon
<1>3. PICK v : v = Requests(d)
  BY Zenon
<1>4. PICK u : u = Muted(v)
  BY Zenon
<1>5. PICK sel : sel = Selected(r)
  BY Zenon
<1>6. PICK rec : rec = Recorded(r, sel)
  BY Zenon
<1>7. a \in NodeStates /\ SameTable(r, a) /\ a.pending = r.pending /\ Remembers(r.fd, a.fd)
  BY Zenon, <1>1, AdvertiseOK
<1>8. d \in NodeStates /\ SameTable(a, d) /\ d.sent = a.sent /\ d.unacked = a.unacked
  BY Zenon, <1>2, <1>7, DropDistanceOK
<1>9. v = Update(r)
  BY Zenon, <1>1, <1>2, <1>3 DEF Update
<1>10. v \in NodeStates /\ Sane(v) /\ SameTable(r, v)
  BY Zenon, <1>9, UpdateOK
<1>11. Sane(d)
  <2>1. \A p \in Nodes : Answered(r, a, p)
    BY Zenon, <1>1, AdvertiseOK
  <2>2. SameTable(r, d)
    BY Zenon, <1>7, <1>8 DEF SameTable
  <2>3. \A p \in Nodes : p \notin r.peers => d.sent[p] = r.sent[p] /\ d.unacked[p] = r.unacked[p]
    BY <1>8, <2>1 DEF Answered
  <2> QED BY Zenon, <2>2, <2>3 DEF Sane, SameTable
<1>12. v.fd = d.fd /\ v.sent = d.sent /\ v.unacked = d.unacked
  BY Zenon, <1>3, <1>8, <1>11, RequestsOK
<1>13. /\ u \in NodeStates /\ Sane(u) /\ Silent(u) /\ SameTable(v, u)
       /\ u.fd = v.fd /\ u.sent = v.sent /\ u.unacked = v.unacked /\ u.pending = v.pending
  <2>1. [p \in Nodes |-> <<>>] \in [Nodes -> Seq(Messages)]
    OBVIOUS
  <2>2. /\ u \in NodeStates /\ SameTable(v, u) /\ Silent(u)
        /\ u.fd = v.fd /\ u.sent = v.sent /\ u.unacked = v.unacked /\ u.pending = v.pending
    BY Zenon, <1>4, <1>10, <2>1 DEF Muted, SameTable, NodeStates, Silent
  <2> QED BY Zenon, <1>10, <2>2 DEF Sane, SameTable
<1>14. SameTable(r, u) /\ SameTable(d, u)
  BY Zenon, <1>7, <1>8, <1>10, <1>13 DEF SameTable
<1>15. /\ a.fd = rec.fd
       /\ \A p \in Nodes : a.sent[p] = IF p \in r.streams THEN Said(r, p, sel, rec) ELSE r.sent[p]
  BY Zenon, <1>1, <1>5, <1>6, AdvertiseTells
<1>16. /\ \A p \in Nodes : p \in r.streams => u.sent[p] = Said(r, p, sel, rec)
       /\ u.fd = IF Drained(a) THEN None ELSE rec.fd
  <2>1. d.fd = IF Drained(a) THEN None ELSE a.fd
    BY Zenon, <1>2, <1>7 DEF DropDistance, NodeStates
  <2> QED BY Zenon, <1>8, <1>12, <1>13, <1>15, <2>1
<1>17. Drained(a) <=> Drained(u)
  <2>1. u.origin = a.origin /\ u.rx = a.rx
    BY Zenon, <1>7, <1>14 DEF SameTable
  <2>2. u.sent = a.sent /\ u.unacked = a.unacked
    BY Zenon, <1>8, <1>12, <1>13
  <2> QED BY Zenon, <2>1, <2>2 DEF Drained
<1>18. Drained(u) => u.fd = None
  BY Zenon, <1>16, <1>17
<1>19. Requests(u).pending = u.pending
  <2>1. SameView(d, u)
    BY Zenon, <1>12, <1>13, <1>14 DEF SameView, SameTable
  <2>2. Requests(u) = u
    BY Zenon, <1>3, <1>8, <1>11, <1>13, <2>1, RequestsStable
  <2> QED BY Zenon, <2>2
<1>20. ASSUME Selected(u) = sel,
              sel # None /\ (\E p \in r.streams : Exports(r, p, sel)) => Record(u.fd, sel) = u.fd,
              sel = None => (Live(u) <=> Live(rec))
       PROVE  Quiet(u)
  <2>0. u.streams = r.streams /\ u.link = r.link /\ u.origin = r.origin
    BY Zenon, <1>14 DEF SameTable
  <2>1. sel # None /\ (\E p \in u.streams : Exports(u, p, sel)) => Record(u.fd, sel) = u.fd
    BY Zenon, <1>20, <2>0 DEF Exports, Serves
  <2>2. ASSUME NEW p \in u.streams PROVE u.sent[p] = Said(u, p, sel, u)
    <3>1. p \in Nodes
      BY Zenon, <1>13 DEF NodeStates
    <3>2. u.sent[p] = Said(r, p, sel, rec)
      BY Zenon, <1>16, <2>0, <3>1
    <3>3. CASE sel = None
      <4>1. Said(u, p, sel, u) = Said(r, p, sel, rec)
        <5>1. Live(u) <=> Live(rec)
          BY Zenon, <1>20, <3>3
        <5> QED BY <2>0, <3>2, <5>1, SameReach
      <4> QED BY Zenon, <3>2, <4>1
    <3>4. CASE sel # None
      BY Zenon, <2>0, <3>2, <3>4 DEF Said, Reach, Exports, Serves
    <3> QED BY Zenon, <3>3, <3>4
  <2> QED BY Zenon, <1>18, <1>19, <1>20, <2>1, <2>2 DEF Quiet
<1>21. ASSUME Drained(a) PROVE Quiet(u)
  <2>1. /\ r.origin = None /\ u.origin = None
        /\ \A p \in Nodes : r.rx[p] = None /\ u.rx[p] = None
    BY Zenon, <1>7, <1>14, <1>21 DEF Drained, SameTable
  <2>2. Selected(r) = None /\ Selected(u) = None /\ ~Live(r) /\ ~Live(u)
    BY Zenon, <2>1, NoRoutes
  <2>3. rec = r
    BY Zenon, <1>5, <1>6, <2>2 DEF Recorded
  <2>4. sel = None /\ Selected(u) = sel /\ ~Live(rec)
    BY Zenon, <1>5, <2>2, <2>3
  <2> QED BY Zenon, <1>20, <2>2, <2>4
<1>22. ASSUME ~Drained(a), sel # None, \E p \in r.streams : Exports(r, p, sel)
       PROVE  Quiet(u)
  <2>1. rec = [r EXCEPT !.fd = Record(r.fd, sel)]
    BY Zenon, <1>6, <1>22 DEF Recorded
  <2>2. u.fd = Record(r.fd, sel)
    BY Zenon, <1>16, <1>22, <2>1 DEF NodeStates
  <2>3. u.link = r.link /\ u.origin = r.origin /\ u.rx = r.rx /\ u.draining = r.draining
    BY Zenon, <1>14 DEF SameTable
  <2>4. Selected(u) = sel
    BY Zenon, <1>5, <1>13, <1>22, <2>2, <2>3, RecordKeepsSelected
  <2>5. sel \in Selections /\ r.fd \in Distances \cup {None}
    BY Zenon, <1>5, <1>22, SelectedType DEF NodeStates
  <2>6. ~FeasibleFrom(u.fd, sel)
    BY Zenon, <2>2, <2>5, RecordOK
  <2>7. Record(u.fd, sel) = u.fd
    BY Zenon, <2>6 DEF Record
  <2> QED BY Zenon, <1>20, <1>22, <2>4, <2>7
<1>23. ASSUME ~Drained(a), ~(sel # None /\ \E p \in r.streams : Exports(r, p, sel))
       PROVE  Quiet(u)
  <2>1. rec = r
    BY Zenon, <1>6, <1>23 DEF Recorded
  <2>2. SameView(r, u)
    BY Zenon, <1>14, <1>16, <1>23, <2>1 DEF SameView, SameTable
  <2>3. Selected(u) = sel /\ (Live(u) <=> Live(rec))
    BY Zenon, <1>5, <1>13, <2>1, <2>2, SameChoice
  <2> QED BY Zenon, <1>20, <1>23, <2>3
<1> QED BY Zenon, <1>4, <1>9, <1>13, <1>21, <1>22, <1>23

\* A change that selection does not see leaves a quiet node quiet.
LEMMA QuietSame ==
    ASSUME Counting, NEW r \in NodeStates, Sane(r), NEW u \in NodeStates, Sane(u), SameView(r, u),
           u.streams \subseteq r.streams, u.sent = r.sent, u.unacked = r.unacked, u.pending = r.pending,
           Quiet(r)
    PROVE  Quiet(u)
<1>1. PICK sel : sel = Selected(r)
  BY Zenon
<1>2. /\ u.link = r.link /\ u.origin = r.origin /\ u.rx = r.rx /\ u.fd = r.fd
  BY Zenon DEF SameView
<1>3. Selected(u) = sel /\ (Live(u) <=> Live(r))
  BY Zenon, <1>1, SameChoice
<1>4. /\ sel # None /\ (\E p \in r.streams : Exports(r, p, sel)) => Record(r.fd, sel) = r.fd
      /\ \A p \in r.streams : r.sent[p] = Said(r, p, sel, r)
      /\ Drained(r) => r.fd = None
      /\ Requests(r).pending = r.pending
  BY Zenon, <1>1 DEF Quiet
<1>5. sel # None /\ (\E p \in u.streams : Exports(u, p, sel)) => Record(u.fd, sel) = u.fd
  BY Zenon, <1>2, <1>4 DEF Exports, Serves
<1>6. ASSUME NEW p \in u.streams PROVE u.sent[p] = Said(u, p, sel, u)
  <2>1. Said(u, p, sel, u) = Said(r, p, sel, r)
    <3>1. u.sent[p] = r.sent[p]
      BY Zenon
    <3> QED BY <1>2, <1>3, <3>1, SameReach
  <2> QED BY Zenon, <1>4, <2>1
<1>7. Drained(u) => u.fd = None
  BY Zenon, <1>2, <1>4 DEF Drained
<1>8. Requests(u).pending = u.pending
  <2>1. Requests(u) = u
    BY Zenon, <1>4, RequestsStable
  <2> QED BY Zenon, <2>1
<1> QED BY Zenon, <1>3, <1>5, <1>6, <1>7, <1>8 DEF Quiet

\* A node that just started owes nothing.
LEMMA NewQuiet ==
    ASSUME Counting, NEW link \in [Nodes -> Links \cup {None}]
    PROVE  New(link) \in NodeStates /\ Sane(New(link)) /\ Silent(New(link)) /\ Quiet(New(link))
<1>1. PICK r : r = New(link)
  BY Zenon
<1>2. /\ r.link = link /\ r.peers = {} /\ r.streams = {} /\ r.draining = {} /\ r.origin = None
      /\ r.fd = None /\ r.pending = None /\ r.rx = [p \in Nodes |-> None]
      /\ r.sent = [p \in Nodes |-> None] /\ r.unacked = [p \in Nodes |-> 0]
      /\ r.out = [p \in Nodes |-> <<>>]
  BY <1>1 DEF New
<1>3. \A p \in Nodes : r.rx[p] = None /\ r.sent[p] = None /\ r.unacked[p] = 0 /\ r.out[p] = <<>>
  BY Zenon, <1>2
<1>4. r \in NodeStates
  <2>1. /\ [p \in Nodes |-> <<>>] \in [Nodes -> Seq(Messages)]
        /\ [p \in Nodes |-> 0] \in [Nodes -> Nat]
    OBVIOUS
  <2>2. /\ [p \in Nodes |-> None] \in [Nodes -> Entries \cup {None}]
        /\ [p \in Nodes |-> None] \in [Nodes -> Adverts \cup {Held, None}]
    BY Zenon
  <2> QED BY Zenon, <1>1, <2>1, <2>2 DEF New, NodeStates
<1>5. Sane(r) /\ Silent(r)
  BY Zenon, <1>2, <1>3 DEF Sane, Silent
<1>6. Selected(r) = None /\ Infeasible(r) = {}
  <2>1. Selected(r) = None
    BY Zenon, <1>2, <1>3, NoRoutes
  <2>2. Heard(r, FALSE) = {}
    BY Zenon, <1>3 DEF Heard
  <2> QED BY Zenon, <2>1, <2>2 DEF Infeasible
<1>7. Requests(r).pending = None
  <2>1. ~Starved(r)
    BY Zenon, <1>6 DEF Starved
  <2>2. Requests(r) = [r EXCEPT !.pending = None]
    BY Zenon, <1>2, <2>1 DEF Requests
  <2> QED BY Zenon, <1>4, <2>2 DEF NodeStates
<1>8. Quiet(r)
  BY Zenon, <1>2, <1>6, <1>7 DEF Quiet
<1> QED BY Zenon, <1>1, <1>4, <1>5, <1>8

-----------------------------------------------------------------------------
\* Everything node r knows of the origin's seqno is at most i, and it asks for at most one
\* more.
Low(r, i) ==
    /\ r.origin # None => r.origin <= i
    /\ r.fd # None => r.fd.seqno <= i
    /\ \A p \in Nodes : r.rx[p] # None => r.rx[p].advert.seqno <= i
    /\ r.pending # None => r.pending.seqno <= i + 1

\* The same of a message.
Modest(m, i) ==
    /\ IsFinite(m) => m.reach.seqno <= i
    /\ m.type = "request" => m.seqno <= i + 1

\* A route with a seqno that is not new, or none.
LEMMA LowRoute ==
    ASSUME NEW i \in Nat, NEW x \in Adverts \cup {Held, None}, x \in Adverts => x.seqno <= i
    PROVE  Modest(Route(x), i)
<1>1. Route(x).type = "route" /\ Route(x).reach = x
  BY DEF Route
<1>2. IsFinite(Route(x)) => x \in Adverts
  BY Zenon, MessageKinds
<1> QED BY Zenon, <1>1, <1>2 DEF Modest

\* A request for at most one more.
LEMMA LowRequest ==
    ASSUME NEW i \in Nat, NEW s \in Nat, s <= i + 1
    PROVE  Modest(Request(s), i)
<1>1. Request(s).type = "request" /\ Request(s).seqno = s
  BY DEF Request
<1>2. ~IsFinite(Request(s))
  BY Zenon, MessageKinds
<1> QED BY Zenon, <1>1, <1>2 DEF Modest

\* A selected route has a seqno that is not new.
LEMMA LowSelected ==
    ASSUME Counting, NEW r \in NodeStates, Sane(r), NEW i \in Nat, Low(r, i), Selected(r) # None
    PROVE  Selected(r).seqno <= i
<1>1. CASE r.origin # None
  <2>1. Selected(r) = [next |-> None, seqno |-> r.origin, metric |-> 0, down |-> FALSE]
    BY Zenon, <1>1 DEF Selected
  <2>2. Selected(r).seqno = r.origin
    BY <2>1
  <2> QED BY Zenon, <1>1, <2>2 DEF Low
<1>2. CASE r.origin = None
  <2>1. Usable(r) # {}
    BY Zenon, <1>2 DEF Selected
  <2>2. PICK p : p = Best(r, Usable(r))
    BY Zenon
  <2>3. Selected(r) = [next |-> p, seqno |-> r.rx[p].advert.seqno, metric |-> Through(r, p),
                       down |-> r.link[p].upstream \/ r.rx[p].advert.down]
    BY Zenon, <1>2, <2>1, <2>2 DEF Selected
  <2>4. Usable(r) \in SUBSET Heard(r, FALSE)
    BY Zenon DEF Usable
  <2>5. p \in Heard(r, FALSE)
    BY Zenon, <2>1, <2>2, <2>4, BestIn
  <2>6. p \in Nodes /\ r.rx[p] # None
    BY Zenon, <2>5 DEF Heard
  <2>7. Selected(r).seqno = r.rx[p].advert.seqno
    BY <2>3
  <2> QED BY Zenon, <2>6, <2>7 DEF Low
<1> QED BY Zenon, <1>1, <1>2

\* What requests asks for is at most one past what the node knows.
LEMMA LowWanting ==
    ASSUME NEW i \in Nat, NEW w \in Pendings \cup {None}, w # None => w.seqno <= i + 1,
           NEW s \in Nat, s <= i + 1
    PROVE  Wanting(w, s).seqno <= i + 1
<1>1. CASE w = None
  <2>1. Wanting(w, s) = [seqno |-> s, from |-> {}, asked |-> None]
    BY Zenon, <1>1 DEF Wanting
  <2>2. Wanting(w, s).seqno = s
    BY <2>1
  <2> QED BY Zenon, <2>2
<1>2. CASE w # None /\ w.seqno < s
  <2>1. Wanting(w, s) = [w EXCEPT !.seqno = s, !.asked = None]
    BY Zenon, <1>2 DEF Wanting
  <2>2. Wanting(w, s).seqno = s
    BY Zenon, <1>2, <2>1 DEF Pendings
  <2> QED BY Zenon, <2>2
<1>3. CASE w # None /\ ~(w.seqno < s)
  BY Zenon, <1>3 DEF Wanting
<1> QED BY Zenon, <1>1, <1>2, <1>3

\* update queues no message with a seqno the origin never had, nor a request for more
\* than the next one.
LEMMA UpdateLow ==
    ASSUME Counting, NEW r \in NodeStates, Sane(r), Silent(r), NEW i \in Nat, Low(r, i)
    PROVE  LET u == Update(r) IN
           /\ Low(u, i)
           /\ \A p \in Nodes : \A j \in DOMAIN u.out[p] : Modest(u.out[p][j], i)
<1>1. PICK a : a = Advertise(r)
  BY Zenon
<1>2. PICK d : d = DropDistance(a)
  BY Zenon
<1>3. PICK u : u = Requests(d)
  BY Zenon
<1>4. PICK sel : sel = Selected(r)
  BY Zenon
<1>5. a \in NodeStates /\ SameTable(r, a) /\ a.pending = r.pending /\ \A p \in Nodes : Answered(r, a, p)
  BY Zenon, <1>1, AdvertiseOK
<1>6. /\ d \in NodeStates /\ SameTable(a, d) /\ d.pending = a.pending
      /\ d.sent = a.sent /\ d.unacked = a.unacked /\ d.out = a.out
  BY Zenon, <1>2, <1>5, DropDistanceOK
<1>7. SameTable(r, d)
  BY Zenon, <1>5, <1>6 DEF SameTable
<1>8. Sane(d)
  <2>1. \A p \in Nodes : p \notin r.peers => d.sent[p] = r.sent[p] /\ d.unacked[p] = r.unacked[p]
    BY <1>5, <1>6 DEF Answered
  <2> QED BY Zenon, <1>7, <2>1 DEF Sane, SameTable
<1>9. sel # None => sel.seqno <= i
  BY Zenon, <1>4, LowSelected
<1>10. a.fd # None => a.fd.seqno <= i
  <2>1. a.fd = Recorded(r, sel).fd
    BY Zenon, <1>1, <1>4, AdvertiseTells
  <2>2. r.fd # None => r.fd.seqno <= i
    BY Zenon DEF Low
  <2>3. CASE sel # None /\ \E p \in r.streams : Exports(r, p, sel)
    <3>1. a.fd = Record(r.fd, sel)
      BY Zenon, <2>1, <2>3 DEF Recorded, NodeStates
    <3>2. CASE FeasibleFrom(r.fd, sel)
      <4>1. a.fd = [seqno |-> sel.seqno, metric |-> sel.metric]
        BY Zenon, <3>1, <3>2 DEF Record
      <4>2. a.fd.seqno = sel.seqno
        BY <4>1
      <4> QED BY Zenon, <1>9, <2>3, <4>2
    <3>3. CASE ~FeasibleFrom(r.fd, sel)
      BY Zenon, <2>2, <3>1, <3>3 DEF Record
    <3> QED BY Zenon, <3>2, <3>3
  <2>4. CASE ~(sel # None /\ \E p \in r.streams : Exports(r, p, sel))
    BY Zenon, <2>1, <2>2, <2>4 DEF Recorded
  <2> QED BY Zenon, <2>3, <2>4
<1>11. d.fd # None => d.fd.seqno <= i
  <2>1. d.fd = None \/ d.fd = a.fd
    BY Zenon, <1>2, <1>5 DEF DropDistance, NodeStates
  <2> QED BY Zenon, <1>10, <2>1
<1>12. ASSUME NEW p \in Nodes
       PROVE  d.out[p] = <<>> \/ \E m \in Messages : d.out[p] = <<m>> /\ Modest(m, i)
  <2>1. CASE a.out[p] = <<>>
    BY Zenon, <1>6, <2>1
  <2>2. CASE p \in r.streams /\ a.out[p] = <<Route(a.sent[p])>>
    <3>1. PICK x : x = a.sent[p]
      BY Zenon
    <3>2. x \in Adverts \cup {Held, None}
      BY Zenon, <1>5, <3>1 DEF NodeStates
    <3>3. x = Said(r, p, sel, Recorded(r, sel))
      BY Zenon, <1>1, <1>4, <2>2, <3>1, AdvertiseTells
    <3>4. \/ x = Held \/ x = None
          \/ sel # None /\ x = Advert(sel.seqno, sel.metric, sel.down)
      BY Zenon, <3>3 DEF Said, Reach
    <3>5. Held \notin Adverts /\ None \notin Adverts
      BY RouterAssumption DEF Held, Adverts
    <3>6. ASSUME x \in Adverts PROVE x.seqno <= i
      <4>1. sel # None /\ x = Advert(sel.seqno, sel.metric, sel.down)
        BY Zenon, <3>4, <3>5, <3>6
      <4>2. x.seqno = sel.seqno
        BY <4>1 DEF Advert
      <4> QED BY Zenon, <1>9, <4>1, <4>2
    <3>7. Modest(Route(x), i) /\ Route(x) \in Messages
      BY Zenon, <3>2, <3>6, LowRoute, MessageKinds
    <3> QED BY Zenon, <1>6, <2>2, <3>1, <3>7
  <2> QED BY Zenon, <1>1, <2>1, <2>2, AdvertiseTells
<1>13. d.pending # None => d.pending.seqno <= i + 1
  BY Zenon, <1>5, <1>6 DEF Low
<1>14. PICK w : w = Wanted(d)
  BY Zenon
<1>15. w \in Pendings \cup {None}
  BY Zenon, <1>6, <1>8, <1>14, WantedOK
<1>16. w # None => w.seqno <= i + 1
  <2>1. CASE ~Starved(d)
    BY Zenon, <1>13, <1>14, <2>1 DEF Wanted
  <2>2. CASE Starved(d)
    <3>1. d.fd \in Distances
      BY Zenon, <1>6, <1>8, <2>2, WantedOK
    <3>2. d.fd # None /\ d.fd.seqno \in Nat
      BY Zenon, <3>1, RouterAssumption DEF Distances
    <3>3. PICK s : s = d.fd.seqno + 1
      BY Zenon
    <3>4. s \in Nat /\ s <= i + 1
      BY <1>11, <3>2, <3>3
    <3>5. w = Wanting(d.pending, s)
      BY Zenon, <1>14, <2>2, <3>3 DEF Wanted
    <3>6. d.pending \in Pendings \cup {None}
      BY Zenon, <1>6 DEF NodeStates
    <3> QED BY Zenon, <1>13, <3>4, <3>5, <3>6, LowWanting
  <2> QED BY Zenon, <2>1, <2>2
<1>17. /\ u \in NodeStates /\ SameTable(d, u) /\ u.fd = d.fd
  BY Zenon, <1>3, <1>6, <1>8, RequestsOK
<1>18. /\ u.pending # None => u.pending.seqno <= i + 1
       /\ \A p \in Nodes : \/ u.out[p] = d.out[p]
                           \/ \E s \in Nat : s <= i + 1 /\ u.out[p] = Append(d.out[p], Request(s))
  <2>1. CASE u = [d EXCEPT !.pending = None]
    <3>1. u.pending = None /\ u.out = d.out
      BY Zenon, <1>6, <2>1 DEF NodeStates
    <3> QED BY Zenon, <3>1
  <2>2. CASE w \in Pendings /\ u = [d EXCEPT !.pending = w]
    <3>1. u.pending = w /\ u.out = d.out
      BY Zenon, <1>6, <2>2 DEF NodeStates
    <3> QED BY Zenon, <1>16, <3>1
  <2>3. CASE /\ w \in Pendings /\ Target(d) \in Nodes
             /\ u = [d EXCEPT !.pending = [w EXCEPT !.asked = Target(d)],
                              !.out[Target(d)] = Append(@, Request(w.seqno))]
    <3>1. PICK t : t = Target(d)
      BY Zenon
    <3>2. /\ u.pending = [w EXCEPT !.asked = t]
          /\ u.out = [d.out EXCEPT ![t] = Append(d.out[t], Request(w.seqno))]
      BY Zenon, <1>6, <2>3, <3>1 DEF NodeStates
    <3>3. w # None /\ w.seqno \in Nat
      BY Zenon, <2>3, RouterAssumption DEF Pendings
    <3>4. u.pending.seqno = w.seqno
      BY <2>3, <3>2 DEF Pendings
    <3>5. d.out \in [Nodes -> Seq(Messages)]
      BY Zenon, <1>6 DEF NodeStates
    <3>6. \A p \in Nodes : u.out[p] = IF p = t THEN Append(d.out[p], Request(w.seqno)) ELSE d.out[p]
      BY Zenon, <3>2, <3>5
    <3> QED BY Zenon, <1>16, <3>3, <3>4, <3>6
  <2> QED BY Zenon, <1>3, <1>6, <1>8, <1>14, <2>1, <2>2, <2>3, RequestsCases
<1>19. Low(u, i)
  <2>1. u.origin = r.origin /\ u.rx = r.rx
    BY Zenon, <1>7, <1>17 DEF SameTable
  <2> QED BY Zenon, <1>11, <1>17, <1>18, <2>1 DEF Low
<1>20. ASSUME NEW p \in Nodes, NEW j \in DOMAIN u.out[p] PROVE Modest(u.out[p][j], i)
  <2>1. ASSUME NEW q \in Seq(Messages), NEW m \in Messages
        PROVE  /\ DOMAIN <<>> = {} /\ DOMAIN <<m>> = {1} /\ <<m>>[1] = m
               /\ \A k \in DOMAIN Append(q, m) : k \in DOMAIN q \/ Append(q, m)[k] = m
               /\ \A k \in DOMAIN q : Append(q, m)[k] = q[k]
    OBVIOUS
  <2>2. d.out[p] \in Seq(Messages)
    BY Zenon, <1>6 DEF NodeStates
  <2>3. \A k \in DOMAIN d.out[p] : Modest(d.out[p][k], i)
    <3>1. CASE d.out[p] = <<>>
      BY <3>1
    <3>2. ASSUME NEW m \in Messages, d.out[p] = <<m>>, Modest(m, i)
          PROVE  \A k \in DOMAIN d.out[p] : Modest(d.out[p][k], i)
      <4>1. DOMAIN d.out[p] = {1} /\ d.out[p][1] = m
        BY <3>2
      <4> QED BY Zenon, <3>2, <4>1
    <3> QED BY Zenon, <1>12, <3>1, <3>2
  <2>4. CASE u.out[p] = d.out[p]
    BY Zenon, <1>20, <2>3, <2>4
  <2>5. ASSUME NEW s \in Nat, s <= i + 1, u.out[p] = Append(d.out[p], Request(s))
        PROVE  Modest(u.out[p][j], i)
    <3>1. Request(s) \in Messages /\ Modest(Request(s), i)
      BY Zenon, <2>5, MessageKinds, LowRequest
    <3>2. PICK q \in Seq(Messages) : q = d.out[p]
      BY Zenon, <2>2
    <3>3. PICK m \in Messages : m = Request(s)
      BY Zenon, <3>1
    <3>4. PICK k : k = j
      BY Zenon
    <3>5. k \in DOMAIN Append(q, m) /\ u.out[p][j] = Append(q, m)[k]
      BY Zenon, <1>20, <2>5, <3>2, <3>3, <3>4
    <3>6. k \in DOMAIN q \/ Append(q, m)[k] = m
      BY Zenon, <2>1, <3>5
    <3>7. \A n \in DOMAIN q : Append(q, m)[n] = q[n]
      BY Zenon, <2>1
    <3>8. \A n \in DOMAIN q : Modest(q[n], i)
      BY Zenon, <2>3, <3>2
    <3> QED BY Zenon, <3>1, <3>3, <3>5, <3>6, <3>7, <3>8
  <2> QED BY Zenon, <1>18, <2>4, <2>5
<1>21. u = Update(r)
  BY Zenon, <1>1, <1>2, <1>3 DEF Update
<1> QED BY Zenon, <1>19, <1>20, <1>21
==============================================================================
