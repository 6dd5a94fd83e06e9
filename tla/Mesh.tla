-------------------------------- MODULE Mesh --------------------------------
(***************************************************************************)
(* A network of Routers and one identity, originated at node Origin: what  *)
(* the simulated network of rs/moq-net/src/route/tests/mod.rs drives, with *)
(* the two ends of a session noticing its close separately.                *)
(*                                                                         *)
(* A session delivers messages in order, except that a request may         *)
(* overtake routes; the echo of a ROUTE_END is not ordered against the     *)
(* echoing node's own routes.  Closing a session loses what is in flight   *)
(* on it.  A process may exit and come back with nothing of what it knew.  *)
(***************************************************************************)
EXTENDS Router

CONSTANTS Origin,      \* the node that declares the identity
          Scenarios    \* settled networks to start from, and what may befall them

VARIABLES node,    \* each node's Router
          queue,   \* queue[<<n, p>>]: routes and requests from n to p
          acks,    \* acks[<<n, p>>]: echoes from n to p
          issued,  \* the newest seqno the origin ever had
          left     \* bound: how many disruptions of each kind are left

vars == <<node, queue, acks, issued, left>>

Pairs == Nodes \X Nodes
Up(n, p) == p \in node[n].peers /\ n \in node[p].peers

Faults == {"close", "connect", "exit", "drain", "bump"}

\* A settled network s: s.links holds both ends of each session, s.dist each
\* node's metric and s.down the nodes whose route crosses an upstream link.
Sessions(s, n) == {p \in Nodes : s.links[<<n, p>>] # None}
Told(s, n, p) ==
    LET link == s.links[<<n, p>>] IN
    IF /\ link # None
       /\ link.proxy \/ n = Origin
       /\ ~(link.upstream /\ n \in s.down)
    THEN Advert(s.seqno, s.dist[n], n \in s.down) ELSE None

\* Every session is up with both of its streams open, nothing is in flight,
\* and a node keeps a distance exactly when it told some neighbour a route.
SettledNode(s, n) ==
    [New([p \in Nodes |-> s.links[<<n, p>>]]) EXCEPT
       !.peers = Sessions(s, n), !.streams = Sessions(s, n),
       !.origin = IF n = Origin THEN s.seqno ELSE None,
       !.fd = IF \E p \in Nodes : Told(s, n, p) # None
              THEN [seqno |-> s.seqno, metric |-> s.dist[n]] ELSE None,
       !.rx = [p \in Nodes |-> IF Told(s, p, n) = None THEN None
                               ELSE [advert |-> Told(s, p, n), held |-> FALSE]],
       !.sent = [p \in Nodes |-> Told(s, n, p)]]

ASSUME MeshAssumption ==
    /\ Origin \in Nodes
    /\ \A s \in Scenarios :
        /\ s.links \in [Pairs -> Links \cup {None}]
        /\ \A n, p \in Nodes : s.links[<<n, p>>] # None => n # p /\ s.links[<<p, n>>] # None
        /\ s.seqno \in Nat /\ s.dist \in [Nodes -> Nat] /\ s.down \subseteq Nodes
        /\ s.faults \in [Faults -> Nat]

\* In a settled network no node has anything left to tell or to ask.
ASSUME SettledAssumption ==
    \A s \in Scenarios : \A n \in Nodes : Update(SettledNode(s, n)) = SettledNode(s, n)

Init ==
    /\ \E s \in Scenarios :
        /\ node = [n \in Nodes |-> SettledNode(s, n)]
        /\ issued = s.seqno
        /\ left = s.faults
    /\ queue = [c \in Pairs |-> <<>>]
    /\ acks = [c \in Pairs |-> 0]

-----------------------------------------------------------------------------
\* Node n becomes r, and what r queued goes out on the sessions that are up.
\* q and k are the queues and the echoes once the input was taken.
Flush(n, r, q, k) ==
    /\ node' = [node EXCEPT ![n] = [r EXCEPT !.out = [p \in Nodes |-> <<>>]]]
    /\ queue' = [c \in Pairs |-> IF c[1] = n /\ c[2] \in r.peers /\ Up(n, c[2])
                                 THEN q[c] \o r.out[c[2]] ELSE q[c]]
    /\ acks' = k
    /\ issued' = IF r.origin # None /\ r.origin > issued THEN r.origin ELSE issued

Disrupt(kind) == left[kind] > 0 /\ left' = [left EXCEPT ![kind] = @ - 1]

\* What is in flight on the sessions between the pairs S is lost.
Lost(S) == [c \in Pairs |-> IF c \in S THEN <<>> ELSE queue[c]]
Unechoed(S) == [c \in Pairs |-> IF c \in S THEN 0 ELSE acks[c]]
Between(n, p) == {<<n, p>>, <<p, n>>}

\* Both ends open a session; neither has one left from before.
Connect(n, p) ==
    /\ node[n].link[p] # None /\ n < p
    /\ p \notin node[n].peers /\ n \notin node[p].peers
    /\ Disrupt("connect")
    /\ node' = [node EXCEPT ![n] = Connected(@, p), ![p] = Connected(@, n)]
    /\ UNCHANGED <<queue, acks, issued>>

\* The stream p opened on the session reaches n.
OpenStream(n, p) ==
    /\ Up(n, p) /\ p \notin node[n].streams
    /\ Flush(n, PeerInterest(node[n], p), queue, acks)
    /\ UNCHANGED left

\* Node n closes the session, or finds that p already did.
Drop(n, p) ==
    Flush(n, Disconnected(node[n], p), Lost(Between(n, p)), Unechoed(Between(n, p)))
Close(n, p) == Up(n, p) /\ Disrupt("close") /\ Drop(n, p)
Notice(n, p) == p \in node[n].peers /\ ~Up(n, p) /\ Drop(n, p) /\ UNCHANGED left

\* The process at n exits and starts again, under a fresh identity if it was
\* the origin: every session it had is gone.
Exit(n) ==
    /\ Disrupt("exit")
    /\ node' = [node EXCEPT ![n] = New(@.link)]
    /\ LET S == UNION {Between(n, p) : p \in Nodes} IN
       queue' = Lost(S) /\ acks' = Unechoed(S)
    /\ UNCHANGED issued

Drain(n, p) ==
    /\ Up(n, p) /\ p \notin node[n].draining
    /\ Disrupt("drain")
    /\ Flush(n, Goaway(node[n], p), queue, acks)

\* The origin's own set of sessions changed, so it advances its seqno.
Bump ==
    /\ node[Origin].origin # None
    /\ Disrupt("bump")
    /\ Flush(Origin, Bumped(node[Origin]), queue, acks)

\* Node n takes a ROUTE from p, and echoes a ROUTE_END.
TakeRoute(n, p) ==
    LET q == queue[<<p, n>>] IN
    /\ q # <<>> /\ Head(q).type = "route"
    /\ Flush(n, Routed(node[n], p, Head(q).reach), [queue EXCEPT ![<<p, n>>] = Tail(@)],
             IF Head(q).reach = None THEN [acks EXCEPT ![<<n, p>>] = @ + 1] ELSE acks)
    /\ UNCHANGED left

\* Node n takes the next request of p.  The simulated network queues it behind the routes p
\* told before; on the wire it is on another stream, that of the echoes, and may overtake them.
Without(q, i) == [j \in 1 .. Len(q) - 1 |-> IF j < i THEN q[j] ELSE q[j + 1]]
TakeRequest(n, p) ==
    LET q == queue[<<p, n>>] IN
    /\ \E i \in DOMAIN q :
          /\ q[i].type = "request" /\ \A j \in 1 .. i - 1 : q[j].type = "route"
          /\ Flush(n, Requested(node[n], p, q[i].seqno),
                   [queue EXCEPT ![<<p, n>>] = Without(q, i)], acks)
    /\ UNCHANGED left

TakeEcho(n, p) ==
    /\ acks[<<p, n>>] > 0
    /\ Flush(n, Echoed(node[n], p), queue, [acks EXCEPT ![<<p, n>>] = @ - 1])
    /\ UNCHANGED left

Next ==
    \/ \E n, p \in Nodes :
          \/ Connect(n, p)
          \/ OpenStream(n, p)
          \/ Close(n, p)
          \/ Notice(n, p)
          \/ Drain(n, p)
          \/ TakeRoute(n, p)
          \/ TakeRequest(n, p)
          \/ TakeEcho(n, p)
    \/ \E n \in Nodes : Exit(n)
    \/ Bump

Spec == Init /\ [][Next]_vars

\* Sessions deliver, closes are noticed and streams are opened, while nothing
\* says that a link comes back.  A step that spends no fault is one of these,
\* so this is the weak fairness of them all.
Deliverable ==
    \E n, p \in Nodes :
        \/ queue[<<p, n>>] # <<>> \/ acks[<<p, n>>] > 0
        \/ p \in node[n].peers /\ ~Up(n, p)
        \/ Up(n, p) /\ p \notin node[n].streams
Fairness == []<>~Deliverable \/ []<><<UNCHANGED left>>_vars

FairSpec == Spec /\ Fairness

-----------------------------------------------------------------------------
(***************************************************************************)
(* Properties.                                                             *)
(***************************************************************************)

\* The next hops n may use, over sessions that are up.
Hops(n) == {p \in Usable(node[n]) : node[n].origin = None /\ Up(n, p)}

\* "Next hops form no loop": in every set of nodes, one has no usable next hop
\* in the set, whichever of its feasible routes a node selects.  The
\* feasibility distance must survive everything a neighbour may still hold.
LoopFree ==
    \A S \in (SUBSET Nodes) \ {{}} : \E n \in S : Hops(n) \cap S = {}

\* A ROUTE message with a finite advertisement.
IsFinite(msg) == msg.type = "route" /\ msg.reach \notin {None, Held}

\* A node keeps its feasibility distance, and no worse than what it said, for
\* as long as a neighbour holds or is yet to receive one of its advertisements:
\* update drops the distance only once drained, and an echo that comes back
\* before an older advertisement is applied must not drain it.
DistanceKept ==
    \A n, p \in Nodes : Up(n, p) =>
        LET q == queue[<<p, n>>] IN
        /\ node[n].rx[p] # None => ~FeasibleFrom(node[p].fd, node[n].rx[p].advert)
        /\ \A i \in DOMAIN q : IsFinite(q[i]) => ~FeasibleFrom(node[p].fd, q[i].reach)

\* Every handler leaves nothing owed: running update again would neither move
\* the distance nor send anything.  advertise selects before it records and
\* decides liveness after, so recording must not undo the selection.
NothingOwed == \A n \in Nodes : Update(node[n]) = node[n]

\* Nobody ever asks for a seqno more than one past the newest the origin had:
\* requests travel, are merged and answered late, and must not drive the seqno
\* toward MAX, where the identity would be retired.
NoInflation ==
    \A n \in Nodes : node[n].pending # None => node[n].pending.seqno <= issued + 1

\* The nodes every route can get to, and those some route can get to: a node
\* may withhold its route from a neighbour it regards as upstream.
Open(n, p) == Up(n, p) /\ (node[p].link[n].proxy \/ p = Origin)
Surely(n, p) == Open(n, p) /\ ~node[p].link[n].upstream
Cut(S, Edge(_, _)) == Origin \in S /\ \A n \in Nodes \ S, p \in S : ~Edge(n, p)
Reached == {n \in Nodes : \A S \in SUBSET Nodes : Cut(S, Surely) => n \in S}
Reachable == {n \in Nodes : \A S \in SUBSET Nodes : Cut(S, Open) => n \in S}

Clean(n) ==
    LET r == node[n] IN
    /\ r.fd = None /\ r.pending = None
    /\ \A p \in Nodes : r.rx[p] = None /\ r.sent[p] = None

\* Once the disruptions stop, every node the origin can reach selects a route
\* and has no request left, and every other node lets go of the identity, its
\* distance included, with no timer: no request is stranded, and holds cannot
\* prop each other up.
Settled ==
    \A n \in Nodes :
        IF node[Origin].origin = None \/ n \notin Reachable THEN Clean(n)
        ELSE n \in Reached => Selected(node[n]) # None /\ node[n].pending = None
Converges == <>[]Settled
=============================================================================
