------------------------------- MODULE Router -------------------------------
(***************************************************************************)
(* One node's route table for one routing identity, as pure operators on   *)
(* the node's state: the route half of moq-net's sans-IO Router            *)
(* (rs/moq-net/src/route/mod.rs).  Every operator takes the state r of a   *)
(* node; the handlers return the new state, with the messages the handler  *)
(* queued in r.out, one sequence per neighbour.                            *)
(*                                                                         *)
(* Identities never share route state, so one identity stands for all.     *)
(* The announcements that ride on a route never influence it and are left  *)
(* out, with collect, which drops them once no route is left; so are       *)
(* qualified keys (a renaming of the identity on a scoped link).           *)
(***************************************************************************)
EXTENDS Integers, Sequences, FiniteSets

CONSTANTS Nodes,      \* neighbour keys; ties between routes go to the smaller
          None,       \* absent: no link, no route, no distance, no request
          MAX,        \* the largest varint: no origin advertises it as a seqno
          MaxMetric   \* the largest metric: an addition above it overflows

\* A ROUTE's state on a stream is a finite advertisement, or held.
Adverts == [kind : {"finite"}, seqno : Nat, metric : Nat, down : BOOLEAN]
Advert(seqno, metric, down) ==
    [kind |-> "finite", seqno |-> seqno, metric |-> metric, down |-> down]
Held == [kind |-> "held"]

\* A route from one neighbour: its last finite advertisement, and a held flag.
Entries == [advert : Adverts, held : BOOLEAN]
Distances == [seqno : Nat, metric : Nat]
\* One side's configuration of a link.
Links == [cost : Nat \ {0}, priority : -128..127, upstream : BOOLEAN, proxy : BOOLEAN]

\* Messages between neighbours; the echo of a ROUTE_END travels apart.
Route(reach) == [type |-> "route", reach |-> reach]
Request(seqno) == [type |-> "request", seqno |-> seqno]
Messages == [type : {"route"}, reach : Adverts \cup {Held, None}]
            \cup [type : {"request"}, seqno : Nat]

\* A seqno request: for which neighbours it is forwarded, and whom it asked.
Pendings == [seqno : Nat, from : SUBSET Nodes, asked : Nodes \cup {None}]
\* A selected route; its own identity's has no next hop.
Selections == [next : Nodes \cup {None}, seqno : Nat, metric : Nat, down : BOOLEAN]

\* Neighbour keys are finitely many numbers, and None is no value of any of these types.
ASSUME RouterAssumption ==
    /\ Nodes \subseteq Nat /\ IsFiniteSet(Nodes)
    /\ MAX \in Nat /\ MaxMetric \in Nat
    /\ None \notin Nat /\ None \notin Adverts /\ None # Held
    /\ None \notin Entries /\ None \notin Distances /\ None \notin Links
    /\ None \notin Pendings /\ None \notin Selections

\* A node with the given link configurations, no sessions and no state.
New(link) ==
    [link |-> link, peers |-> {}, streams |-> {}, draining |-> {},
     origin |-> None, fd |-> None, pending |-> None,
     rx |-> [p \in Nodes |-> None], sent |-> [p \in Nodes |-> None],
     unacked |-> [p \in Nodes |-> 0], out |-> [p \in Nodes |-> <<>>]]

-----------------------------------------------------------------------------
(***************************************************************************)
(* Selection.                                                              *)
(***************************************************************************)

\* Babel's feasibility condition against the distance fd.
FeasibleFrom(fd, a) ==
    \/ fd = None
    \/ a.seqno > fd.seqno
    \/ a.seqno = fd.seqno /\ a.metric < fd.metric

\* The metric through neighbour p; above MaxMetric the addition overflowed.
Through(r, p) == r.rx[p].advert.metric + r.link[p].cost

\* Mutant of Feasible: an equal seqno is taken for a newer one.
Feasible_same_seqno(r, p) == r.fd = None \/ r.rx[p].advert.seqno >= r.fd.seqno

Feasible(r, p) == FeasibleFrom(r.fd, r.rx[p].advert)

\* The neighbours whose route is held or finite and does not overflow here.
Heard(r, held) ==
    {p \in Nodes : /\ r.rx[p] # None
                   /\ r.rx[p].held = held
                   /\ Through(r, p) <= MaxMetric}

Usable(r)      == {p \in Heard(r, FALSE) : Feasible(r, p)}
Infeasible(r)  == {p \in Heard(r, FALSE) : ~Feasible(r, p)}

\* Mutant of Recoverable: any held route counts, feasible or not.
Recoverable_any(r) == Heard(r, TRUE)

Recoverable(r) == {p \in Heard(r, TRUE) : Feasible(r, p)}

\* Draining last, then priority, then metric, then the neighbour's key.
Rank(r, p) ==
    <<IF p \in r.draining THEN 1 ELSE 0, 127 - r.link[p].priority, Through(r, p), p>>
Precedes(s, t) ==
    \E i \in DOMAIN s : s[i] < t[i] /\ \A j \in 1..(i - 1) : s[j] = t[j]
Best(r, S) == CHOOSE p \in S : \A q \in S : ~Precedes(Rank(r, q), Rank(r, p))
Closest(r, S) ==
    CHOOSE p \in S : \A q \in S : ~Precedes(<<Through(r, q), q>>, <<Through(r, p), p>>)

Selected(r) ==
    IF r.origin # None
    THEN [next |-> None, seqno |-> r.origin, metric |-> 0, down |-> FALSE]
    ELSE IF Usable(r) = {} THEN None
    ELSE LET p == Best(r, Usable(r)) IN
         [next |-> p, seqno |-> r.rx[p].advert.seqno, metric |-> Through(r, p),
          down |-> r.link[p].upstream \/ r.rx[p].advert.down]

Starved(r) == Selected(r) = None /\ Infeasible(r) # {}
Live(r) == Selected(r) # None \/ Infeasible(r) # {} \/ Recoverable(r) # {}

\* Where a request goes: the selected next hop, else the best infeasible one.
Target(r) ==
    LET sel == Selected(r) IN
    IF sel # None THEN sel.next
    ELSE IF Infeasible(r) = {} THEN None ELSE Closest(r, Infeasible(r))

-----------------------------------------------------------------------------
(***************************************************************************)
(* update: what the neighbours are told, the distance kept for it, and the *)
(* seqno request, in the order every handler runs them.                    *)
(***************************************************************************)

Serves(r, p) == r.link[p].proxy \/ r.origin # None

\* Whether neighbour p is sent the selected route sel as a finite one.
Exports(r, p, sel) == Serves(r, p) /\ ~(r.link[p].upstream /\ sel.down)

Record(fd, sel) ==
    IF FeasibleFrom(fd, sel) THEN [seqno |-> sel.seqno, metric |-> sel.metric] ELSE fd

\* The distance once the selected route is one some watching neighbour is sent.
Recorded(r, sel) ==
    IF sel # None /\ \E p \in r.streams : Exports(r, p, sel)
    THEN [r EXCEPT !.fd = Record(@, sel)] ELSE r

\* What neighbour p is to be told, given the route selected before the
\* distance was recorded and whether the node is live after.
Reach(r, p, sel, live) ==
    IF sel # None
    THEN IF Exports(r, p, sel) THEN Advert(sel.seqno, sel.metric, sel.down) ELSE None
    ELSE IF Serves(r, p) /\ live /\ r.sent[p] # None THEN Held ELSE None

\* Tell every watching neighbour whose reach changed; an END is owed an echo.
Tell(r, reach) ==
    LET changed == {p \in r.streams : reach[p] # r.sent[p]} IN
    [r EXCEPT
       !.sent = [p \in Nodes |-> IF p \in changed THEN reach[p] ELSE r.sent[p]],
       !.unacked = [p \in Nodes |->
           IF p \in changed /\ reach[p] = None THEN r.unacked[p] + 1 ELSE r.unacked[p]],
       !.out = [p \in Nodes |->
           IF p \in changed THEN Append(r.out[p], Route(reach[p])) ELSE r.out[p]]]

Advertise(r) ==
    LET sel == Selected(r)
        recorded == Recorded(r, sel)
        live == Live(recorded)
    IN Tell(recorded, [p \in r.streams |-> Reach(r, p, sel, live)])

\* Mutant of Drained: the echoes of the ENDs are not awaited.
Drained_unechoed(r) ==
    r.origin = None /\ \A p \in Nodes : r.rx[p] = None /\ r.sent[p] = None

\* Nothing here routes or advertises the identity and every END was echoed.
Drained(r) ==
    /\ r.origin = None
    /\ \A p \in Nodes : r.rx[p] = None /\ r.sent[p] = None /\ r.unacked[p] = 0
DropDistance(r) == IF Drained(r) THEN [r EXCEPT !.fd = None] ELSE r

\* Mutant of Wanting: a forwarder asks for one more.
Wanting_more(pending, seqno) ==
    IF pending = None THEN [seqno |-> seqno + 1, from |-> {}, asked |-> None]
    ELSE IF pending.seqno < seqno THEN [pending EXCEPT !.seqno = seqno, !.asked = None]
    ELSE pending

\* A request for seqno, asked of nobody yet unless one as new is pending.
Wanting(pending, seqno) ==
    IF pending = None THEN [seqno |-> seqno, from |-> {}, asked |-> None]
    ELSE IF pending.seqno < seqno THEN [pending EXCEPT !.seqno = seqno, !.asked = None]
    ELSE pending

Requests(r) ==
    LET sel == Selected(r)
        target == Target(r)
        pending == IF Starved(r) THEN Wanting(r.pending, r.fd.seqno + 1) ELSE r.pending
        settled == \/ r.origin # None
                   \/ sel # None /\ sel.seqno >= pending.seqno
                   \/ pending.from = {} /\ ~Starved(r)
                   \/ target = None
    IN IF pending = None \/ settled THEN [r EXCEPT !.pending = None]
       ELSE IF pending.asked = target THEN [r EXCEPT !.pending = pending]
       ELSE [r EXCEPT !.pending = [pending EXCEPT !.asked = target],
                      !.out[target] = Append(@, Request(pending.seqno))]

Update(r) == Requests(DropDistance(Advertise(r)))

-----------------------------------------------------------------------------
(***************************************************************************)
(* The handlers.                                                           *)
(***************************************************************************)

Connected(r, p) ==
    [r EXCEPT !.peers = @ \cup {p}, !.draining = @ \ {p}, !.streams = @ \ {p}]

\* Neighbour p has a part in the identity: a route, an advertisement, an echo or a request.
Touched(r, p) ==
    \/ r.rx[p] # None \/ r.sent[p] # None \/ r.unacked[p] # 0
    \/ r.pending # None /\ p \in r.pending.from

\* A closed session is the echo of every END sent on it.
Disconnected(r, p) ==
    LET s == [r EXCEPT !.peers = @ \ {p}, !.streams = @ \ {p}, !.draining = @ \ {p},
                       !.rx[p] = None, !.sent[p] = None, !.unacked[p] = 0,
                       !.pending = IF r.pending = None THEN None
                                   ELSE [r.pending EXCEPT !.from = @ \ {p}]]
    IN IF Touched(r, p) THEN Update(s) ELSE s

PeerInterest(r, p) == Update([r EXCEPT !.streams = @ \cup {p}])

\* Mutant of Goaway: the routes through p are not selected again.
Goaway_no_update(r, p) == [r EXCEPT !.draining = @ \cup {p}]

Goaway(r, p) ==
    LET s == [r EXCEPT !.draining = @ \cup {p}] IN
    IF r.rx[p] = None THEN s ELSE Update(s)

\* The identity is retired for a fresh one, which is another instance.
Rotated(r) == Update([r EXCEPT !.origin = None])

Bumped(r) ==
    IF r.origin + 1 = MAX THEN Rotated(r) ELSE Update([r EXCEPT !.origin = @ + 1])

\* ROUTE_START or ROUTE_UPDATE, ROUTE_HOLD, or ROUTE_END for None.
Applied(entry, reach) ==
    IF reach = None THEN None
    ELSE IF reach # Held THEN [advert |-> reach, held |-> FALSE]
    ELSE IF entry = None THEN None ELSE [entry EXCEPT !.held = TRUE]
Routed(r, p, reach) == Update([r EXCEPT !.rx[p] = Applied(@, reach)])

\* Only the origin advances its seqno to answer.
Requested(r, p, seqno) ==
    LET sel == Selected(r) IN
    IF r.origin # None
    THEN IF seqno = MAX THEN Rotated(r)
         ELSE Update([r EXCEPT !.origin = IF seqno > @ THEN seqno ELSE @])
    ELSE IF sel # None /\ sel.seqno >= seqno THEN r
    ELSE LET wanted == Wanting(r.pending, seqno) IN
         Update([r EXCEPT !.pending = [wanted EXCEPT !.from = @ \cup {p}]])

\* The echo of a ROUTE_END sent to p; unsolicited ones are ignored.
Echoed(r, p) ==
    IF r.unacked[p] = 0 THEN r ELSE Update([r EXCEPT !.unacked[p] = @ - 1])
=============================================================================
