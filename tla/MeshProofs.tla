----------------------------- MODULE MeshProofs -----------------------------
(***************************************************************************)
(* No network of Routers ever forms a routing loop, for any nodes, links   *)
(* and settled start.  Every action keeps the invariant of MeshInv, and a  *)
(* usable next hop is strictly nearer to the origin under it.              *)
(***************************************************************************)
EXTENDS MeshInv

\* The inductive invariant of the network.
Net == NetInv(node, queue, acks)

\* A change of what no other node depends on.
LEMMA Inert ==
    ASSUME NEW nd, NEW q, NEW k, NetInv(nd, q, k), NEW n \in Nodes,
           NEW r \in NodeStates, Sane(r), Silent(r),
           r.link = nd[n].link, r.peers = nd[n].peers, r.rx = nd[n].rx,
           r.sent = nd[n].sent, r.unacked = nd[n].unacked, r.fd = nd[n].fd
    PROVE  NetInv([nd EXCEPT ![n] = r], q, k)
<1> DEFINE nd2 == [nd EXCEPT ![n] = r]
<1>1. /\ nd2 \in [Nodes -> NodeStates]
      /\ \A m \in Nodes : /\ nd2[m].link = nd[m].link /\ nd2[m].peers = nd[m].peers /\ nd2[m].rx = nd[m].rx
                          /\ nd2[m].sent = nd[m].sent /\ nd2[m].unacked = nd[m].unacked /\ nd2[m].fd = nd[m].fd
                          /\ Sane(nd2[m]) /\ Silent(nd2[m])
  BY DEF NetInv
<1> HIDE DEF nd2
<1>2. \A m, p \in Nodes : UpIn(nd2, m, p) <=> UpIn(nd, m, p)
  BY <1>1 DEF UpIn
<1>3. ASSUME NEW m \in Nodes, NEW p \in Nodes
      PROVE  IF UpIn(nd2, m, p)
             THEN Agree(q[<<m, p>>], k[<<p, m>>], nd2[p].rx[m], nd2[m].sent[p], nd2[m].unacked[p], nd2[m].fd)
             ELSE q[<<m, p>>] = <<>> /\ k[<<m, p>>] = 0
  <2>1. IF UpIn(nd, m, p)
        THEN Agree(q[<<m, p>>], k[<<p, m>>], nd[p].rx[m], nd[m].sent[p], nd[m].unacked[p], nd[m].fd)
        ELSE q[<<m, p>>] = <<>> /\ k[<<m, p>>] = 0
    BY SMTT(60) DEF NetInv
  <2> QED BY SMTT(60), <1>1, <1>2, <2>1
<1>4. /\ q \in [Pairs -> Seq(Messages)] /\ k \in [Pairs -> Nat]
      /\ \A m \in Nodes : m \notin nd2[m].peers
      /\ \A m, p \in Nodes : nd2[m].link[p] # None => nd2[p].link[m] # None
  <2>1. /\ q \in [Pairs -> Seq(Messages)] /\ k \in [Pairs -> Nat]
        /\ \A m \in Nodes : m \notin nd[m].peers
        /\ \A m, p \in Nodes : nd[m].link[p] # None => nd[p].link[m] # None
    BY Zenon DEF NetInv
  <2>2. \A m \in Nodes : nd2[m].link = nd[m].link /\ nd2[m].peers = nd[m].peers
    BY Zenon, <1>1
  <2> QED BY SMT, <2>1, <2>2
<1>5. NetInv(nd2, q, k)
  BY <1>1, <1>3, <1>4 DEF NetInv
<1> QED BY SMTT(60), <1>5 DEF nd2

\* A handler that ends in update preserves the invariant if what it did before does.
LEMMA FlushUpdate ==
    ASSUME Counting, NEW n \in Nodes, NEW r, NEW q, NEW k, Net, r.peers \subseteq node[n].peers,
           NetInv([node EXCEPT ![n] = r], q, k), Flush(n, Update(r), q, k)
    PROVE  Net'
<1> DEFINE nd == [node EXCEPT ![n] = r]  u == Update(r)
<1>0. node \in [Nodes -> NodeStates] /\ nd \in [Nodes -> NodeStates] /\ nd[n] = r
      /\ \A p \in Nodes : p # n => nd[p] = node[p]
  BY DEF Net, NetInv
<1>1. Sane(r) /\ Silent(r) /\ n \notin r.peers /\ r \in NodeStates
  BY <1>0 DEF NetInv
<1>2. SameTable(r, u)
  BY <1>1, UpdateOK
<1>3. NetInv([nd EXCEPT ![n] = Muted(u)], Sent(nd, n, u, q), k)
  BY ZenonT(60), <1>0, UpdatePreserves
<1>4. [nd EXCEPT ![n] = Muted(u)] = [node EXCEPT ![n] = Muted(u)]
  BY ZenonT(60), <1>0
<1> HIDE DEF u, nd
<1>5. \A p \in Nodes : p \in u.peers /\ Up(n, p) <=> UpIn(nd, n, p)
  BY SMTT(60), <1>0, <1>1, <1>2 DEF UpIn, Up, SameTable
<1>6. \A c \in Pairs : c[2] \in Nodes
  BY DEF Pairs
<1>7. queue' = Sent(nd, n, u, q)
  BY <1>5, <1>6 DEF Flush, Sent, u
<1>8. node' = [node EXCEPT ![n] = Muted(u)] /\ acks' = k
  BY DEF Flush, Muted, u
<1> QED BY <1>3, <1>4, <1>7, <1>8 DEF Net

\* So does a handler that returns early.
LEMMA FlushPlain ==
    ASSUME Counting, NEW n \in Nodes, NEW r, NEW q, NEW k, Net,
           NetInv([node EXCEPT ![n] = r], q, k), Flush(n, r, q, k)
    PROVE  Net'
<1> DEFINE nd == [node EXCEPT ![n] = r]
<1>0. node \in [Nodes -> NodeStates] /\ nd \in [Nodes -> NodeStates] /\ nd[n] = r
  BY SMTT(60) DEF Net, NetInv
<1>1. Silent(r) /\ r \in NodeStates
  BY <1>0 DEF NetInv
<1>2. Muted(r) = r
  <2>1. r.out \in [Nodes -> Seq(Messages)]
    BY <1>1 DEF NodeStates
  <2>2. r.out = [p \in Nodes |-> <<>>]
    BY SMTT(60), <1>1, <2>1 DEF Silent
  <2> QED BY SMTT(60), <1>1, <2>2 DEF Muted, NodeStates
<1>3. q \in [Pairs -> Seq(Messages)]
  BY DEF NetInv
<1>4. \A c \in Pairs : q[c] \o r.out[c[2]] = q[c]
  <2>1. ASSUME NEW c \in Pairs PROVE q[c] \o r.out[c[2]] = q[c]
    <3>1. r.out[c[2]] = <<>> /\ q[c] \in Seq(Messages)
      BY <1>1, <1>3 DEF Silent, Pairs
    <3> QED BY <3>1
  <2> QED BY Zenon, <2>1
<1>5. queue' = q
  BY <1>3, <1>4 DEF Flush
<1>6. node' = [node EXCEPT ![n] = r] /\ acks' = k
  BY Zenon, <1>2 DEF Flush, Muted
<1> QED BY SMTT(60), <1>5, <1>6 DEF Net

\* peer_interest preserves the invariant.
LEMMA OpenStreamOK ==
    ASSUME Counting, Net, NEW n \in Nodes, NEW p \in Nodes, OpenStream(n, p) PROVE Net'
<1> DEFINE r == [node[n] EXCEPT !.streams = @ \cup {p}]
<1>1. node[n] \in NodeStates /\ Sane(node[n]) /\ Silent(node[n])
  BY DEF Net, NetInv
<1>2. /\ r \in NodeStates /\ Sane(r) /\ Silent(r)
      /\ r.link = node[n].link /\ r.peers = node[n].peers /\ r.rx = node[n].rx
      /\ r.sent = node[n].sent /\ r.unacked = node[n].unacked /\ r.fd = node[n].fd
  BY ZenonT(60), <1>1 DEF NodeStates, Sane, Silent, OpenStream, Up
<1> HIDE DEF r
<1>3. NetInv([node EXCEPT ![n] = r], queue, acks)
  BY <1>2, Inert DEF Net
<1>4. Flush(n, Update(r), queue, acks)
  BY DEF OpenStream, PeerInterest, r
<1> QED BY <1>2, <1>3, <1>4, FlushUpdate

\* goaway preserves the invariant.
LEMMA DrainOK ==
    ASSUME Counting, Net, NEW n \in Nodes, NEW p \in Nodes, Drain(n, p) PROVE Net'
<1> DEFINE r == [node[n] EXCEPT !.draining = @ \cup {p}]
<1>1. node[n] \in NodeStates /\ Sane(node[n]) /\ Silent(node[n])
  BY DEF Net, NetInv
<1>2. /\ r \in NodeStates /\ Sane(r) /\ Silent(r)
      /\ r.link = node[n].link /\ r.peers = node[n].peers /\ r.rx = node[n].rx
      /\ r.sent = node[n].sent /\ r.unacked = node[n].unacked /\ r.fd = node[n].fd
  BY Zenon, <1>1 DEF NodeStates, Sane, Silent
<1> HIDE DEF r
<1>3. NetInv([node EXCEPT ![n] = r], queue, acks)
  BY <1>2, Inert DEF Net
<1>4. Flush(n, Update(r), queue, acks) \/ Flush(n, r, queue, acks)
  BY DEF Drain, Goaway, r
<1> QED BY <1>2, <1>3, <1>4, FlushUpdate, FlushPlain

\* The origin's seqno, or that it has none, is seen by no invariant of the others.
LEMMA OriginChange ==
    ASSUME Counting, NEW q, Net, NetInv(node, q, acks), NEW n \in Nodes, NEW o \in Nat \cup {None},
           Flush(n, Update([node[n] EXCEPT !.origin = o]), q, acks)
    PROVE  Net'
<1> DEFINE r == [node[n] EXCEPT !.origin = o]
<1>1. node[n] \in NodeStates /\ Sane(node[n]) /\ Silent(node[n])
  BY DEF Net, NetInv
<1>2. /\ r \in NodeStates /\ Sane(r) /\ Silent(r)
      /\ r.link = node[n].link /\ r.peers = node[n].peers /\ r.rx = node[n].rx
      /\ r.sent = node[n].sent /\ r.unacked = node[n].unacked /\ r.fd = node[n].fd
  BY Zenon, <1>1 DEF NodeStates, Sane, Silent
<1> HIDE DEF r
<1>3. NetInv([node EXCEPT ![n] = r], q, acks)
  BY <1>2, Inert
<1> QED BY ZenonT(60), <1>2, <1>3, FlushUpdate DEF r

\* bump preserves the invariant, at the largest seqno too.
LEMMA BumpOK ==
    ASSUME Counting, Net, Bump PROVE Net'
<1> DEFINE r == node[Origin]
<1>1. r.origin \in Nat
  BY MeshAssumption DEF Bump, Net, NetInv, NodeStates
<1>2. \/ Bumped(r) = Update([r EXCEPT !.origin = None])
      \/ Bumped(r) = Update([r EXCEPT !.origin = r.origin + 1])
  BY DEF Bumped, Rotated
<1>3. Flush(Origin, Bumped(r), queue, acks)
  BY DEF Bump
<1> HIDE DEF r
<1>4. r.origin + 1 \in Nat
  BY <1>1
<1> QED BY ZenonT(60), <1>2, <1>3, <1>4, OriginChange, MeshAssumption DEF Net, r

\* request preserves the invariant: at the origin, served at once, or kept pending.
LEMMA TakeRequestOK ==
    ASSUME Counting, Net, NEW n \in Nodes, NEW p \in Nodes, TakeRequest(n, p) PROVE Net'
<1> DEFINE c == queue[<<p, n>>]  r == node[n]
<1>i. PICK i \in DOMAIN c : /\ c[i].type = "request"
                            /\ Flush(n, Requested(r, p, c[i].seqno), [queue EXCEPT ![<<p, n>>] = Without(c, i)], acks)
  BY Zenon DEF TakeRequest
<1> DEFINE q == [queue EXCEPT ![<<p, n>>] = Without(c, i)]  s == c[i].seqno
<1>0. /\ r \in NodeStates /\ Sane(r) /\ Silent(r)
      /\ queue \in [Pairs -> Seq(Messages)] /\ acks \in [Pairs -> Nat]
      /\ \A m \in Nodes : node[m] \in NodeStates
  BY SMTT(60) DEF Net, NetInv
<1>1. /\ c \in Seq(Messages) /\ c # <<>> /\ c[i].type = "request"
      /\ Flush(n, Requested(r, p, s), q, acks)
  <2>1. c \in Seq(Messages)
    BY Zenon, <1>0 DEF Pairs
  <2>2. DOMAIN <<>> = {}
    OBVIOUS
  <2>3. c # <<>>
    BY Zenon, <2>2
  <2> QED BY Zenon, <1>i, <2>1, <2>3
<1>2. UpIn(node, p, n)
  BY ZenonT(60), <1>1 DEF Net, NetInv
<1>3. Agree(c, acks[<<n, p>>], r.rx[p], node[p].sent[n], node[p].unacked[n], node[p].fd)
  BY <1>2 DEF Net, NetInv
<1>4. acks[<<n, p>>] \in Nat /\ node[p].unacked[n] \in Nat
  BY <1>0 DEF Pairs, NodeStates
<1>5. s \in Nat /\ Agree(Without(c, i), acks[<<n, p>>], r.rx[p], node[p].sent[n], node[p].unacked[n], node[p].fd)
  BY ZenonT(60), <1>1, <1>3, <1>4, AgreeTakeRequest
<1>6. /\ q \in [Pairs -> Seq(Messages)] /\ q[<<p, n>>] = Without(c, i)
      /\ \A m, o \in Nodes : <<m, o>> # <<p, n>> => q[<<m, o>>] = queue[<<m, o>>]
  <2>1. Without(c, i) \in Seq(Messages)
    BY Zenon, <1>1, OneTaken
  <2> QED BY Zenon, <1>0, <2>1 DEF Pairs
<1> HIDE DEF c, q, s, r
<1>7. NetInv(node, q, acks)
  <2>1. ASSUME NEW m \in Nodes, NEW o \in Nodes
        PROVE  IF UpIn(node, m, o)
               THEN Agree(q[<<m, o>>], acks[<<o, m>>], node[o].rx[m], node[m].sent[o], node[m].unacked[o], node[m].fd)
               ELSE q[<<m, o>>] = <<>> /\ acks[<<m, o>>] = 0
    <3>1. CASE m = p /\ o = n
      BY Zenon, <1>2, <1>5, <1>6, <3>1 DEF r
    <3>2. CASE ~(m = p /\ o = n)
      BY <1>6, <3>2 DEF Net, NetInv
    <3> QED BY SMTT(60), <3>1, <3>2
  <2> QED BY <1>6, <2>1 DEF Net, NetInv
<1>8. CASE r.origin # None
  <2>1. \/ Requested(r, p, s) = Update([r EXCEPT !.origin = None])
        \/ \E o \in Nat : Requested(r, p, s) = Update([r EXCEPT !.origin = o])
    BY ZenonT(60), <1>0, <1>5, <1>8 DEF Requested, Rotated, NodeStates
  <2> QED BY Zenon, <1>1, <1>7, <2>1, OriginChange DEF r
<1>9. CASE r.origin = None
  <2>1. CASE Requested(r, p, s) = r
    <3>1. NetInv([node EXCEPT ![n] = r], q, acks)
      BY ZenonT(60), <1>0, <1>7, Inert DEF r
    <3> QED BY SMTT(60), <1>1, <2>1, <3>1, FlushPlain
  <2>2. CASE Requested(r, p, s) # r
    <3> DEFINE w == Wanting(r.pending, s)
               v == [r EXCEPT !.pending = [w EXCEPT !.from = @ \cup {p}]]
    <3>1. Requested(r, p, s) = Update(v)
      BY SMTT(60), <1>9, <2>2 DEF Requested
    <3>2. w \in Pendings
      BY SMTT(60), <1>0, <1>5, WantingType DEF NodeStates
    <3>3. [w EXCEPT !.from = @ \cup {p}] \in Pendings
      BY <3>2 DEF Pendings
    <3> HIDE DEF w
    <3>4. /\ v \in NodeStates /\ Sane(v) /\ Silent(v)
          /\ v.link = r.link /\ v.peers = r.peers /\ v.rx = r.rx
          /\ v.sent = r.sent /\ v.unacked = r.unacked /\ v.fd = r.fd
      BY ZenonT(60), <1>0, <3>3 DEF NodeStates, Sane, Silent
    <3> HIDE DEF v
    <3>5. NetInv([node EXCEPT ![n] = v], q, acks)
      BY <1>7, <3>4, Inert DEF r
    <3> QED BY <1>1, <3>1, <3>4, <3>5, FlushUpdate DEF r
  <2> QED BY <2>1, <2>2
<1> QED BY SMTT(60), <1>8, <1>9

\* Taking a ROUTE preserves the invariant, with the echo of a ROUTE_END.
LEMMA TakeRouteOK ==
    ASSUME Counting, Net, NEW n \in Nodes, NEW p \in Nodes, TakeRoute(n, p) PROVE Net'
<1> DEFINE c == queue[<<p, n>>]  q == [queue EXCEPT ![<<p, n>>] = Tail(@)]  x == Head(c).reach  r == node[n]
           k == IF x = None THEN [acks EXCEPT ![<<n, p>>] = @ + 1] ELSE acks
           v == [r EXCEPT !.rx[p] = Applied(@, x)]
           nd == [node EXCEPT ![n] = v]
<1>0. /\ r \in NodeStates /\ Sane(r) /\ Silent(r)
      /\ queue \in [Pairs -> Seq(Messages)] /\ acks \in [Pairs -> Nat]
      /\ node \in [Nodes -> NodeStates]
  BY DEF Net, NetInv
<1>1. /\ c \in Seq(Messages) /\ c # <<>> /\ Head(c).type = "route"
      /\ Flush(n, Update(v), q, k)
  BY <1>0 DEF TakeRoute, Routed, Pairs
<1>2. UpIn(node, p, n) /\ p # n /\ p \in r.peers
  BY SMTT(60), <1>1 DEF Net, NetInv, UpIn
<1>3. Agree(c, acks[<<n, p>>], r.rx[p], node[p].sent[n], node[p].unacked[n], node[p].fd)
  BY SMTT(60), <1>2 DEF Net, NetInv
<1>4. acks[<<n, p>>] \in Nat /\ node[p].unacked[n] \in Nat /\ r.rx[p] \in Entries \cup {None}
  BY SMTT(60), <1>0 DEF Pairs, NodeStates
<1>5. /\ Applied(r.rx[p], x) \in Entries \cup {None}
      /\ Agree(Tail(c), acks[<<n, p>>] + IF x = None THEN 1 ELSE 0, Applied(r.rx[p], x),
               node[p].sent[n], node[p].unacked[n], node[p].fd)
  <2> DEFINE a == acks[<<n, p>>]  e == r.rx[p]  s == node[p].sent[n]  w == node[p].unacked[n]
             f == node[p].fd
  <2>1. /\ a \in Nat /\ e \in Entries \cup {None} /\ w \in Nat /\ Agree(c, a, e, s, w, f)
        /\ c \in Seq(Messages) /\ c # <<>> /\ Head(c).type = "route"
    BY Zenon, <1>1, <1>3, <1>4
  <2> HIDE DEF a, e, s, w, f, c
  <2>2. /\ Applied(e, Head(c).reach) \in Entries \cup {None}
        /\ Agree(Tail(c), a + IF Head(c).reach = None THEN 1 ELSE 0, Applied(e, Head(c).reach), s, w, f)
    BY Zenon, <2>1, AgreeTakeRoute
  <2> QED BY Zenon, <2>2 DEF a, e, s, w, f
<1>6. /\ q \in [Pairs -> Seq(Messages)] /\ q[<<p, n>>] = Tail(c)
      /\ \A m, o \in Nodes : <<m, o>> # <<p, n>> => q[<<m, o>>] = queue[<<m, o>>]
  BY SMTT(60), <1>0, <1>1 DEF Pairs
<1> HIDE DEF c, q, x, r
<1>7. /\ k \in [Pairs -> Nat] /\ k[<<n, p>>] = acks[<<n, p>>] + IF x = None THEN 1 ELSE 0
      /\ \A m, o \in Nodes : <<m, o>> # <<n, p>> => k[<<m, o>>] = acks[<<m, o>>]
  BY SMTT(60), <1>0, <1>4 DEF Pairs
<1>8. /\ v \in NodeStates /\ Sane(v) /\ Silent(v)
      /\ v.link = r.link /\ v.peers = r.peers /\ v.sent = r.sent /\ v.unacked = r.unacked /\ v.fd = r.fd
      /\ v.rx[p] = Applied(r.rx[p], x) /\ \A o \in Nodes : o # p => v.rx[o] = r.rx[o]
  <2> DEFINE rx == [r.rx EXCEPT ![p] = Applied(@, x)]
  <2>1. /\ rx \in [Nodes -> Entries \cup {None}] /\ rx[p] = Applied(r.rx[p], x)
        /\ \A o \in Nodes : o # p => rx[o] = r.rx[o]
    BY <1>0, <1>5 DEF NodeStates
  <2>2. v = [r EXCEPT !.rx = rx]
    OBVIOUS
  <2> HIDE DEF rx, v
  <2> QED BY ZenonT(60), <1>0, <1>2, <2>1, <2>2 DEF NodeStates, Sane, Silent
<1> HIDE DEF k, v
<1>9. /\ nd \in [Nodes -> NodeStates] /\ nd[n] = v /\ \A m \in Nodes : m # n => nd[m] = node[m]
  BY <1>0, <1>8
<1> HIDE DEF nd
<1>10. \A m \in Nodes : /\ nd[m].link = node[m].link /\ nd[m].peers = node[m].peers
                        /\ nd[m].sent = node[m].sent /\ nd[m].unacked = node[m].unacked
                        /\ nd[m].fd = node[m].fd /\ Sane(nd[m]) /\ Silent(nd[m])
  BY SMTT(60), <1>8, <1>9 DEF Net, NetInv, r
<1>11. \A m, o \in Nodes : UpIn(nd, m, o) <=> UpIn(node, m, o)
  BY SMTT(60), <1>10 DEF UpIn
<1>12. \A m, o \in Nodes : ~(m = p /\ o = n) => nd[o].rx[m] = node[o].rx[m]
  BY SMTT(60), <1>8, <1>9 DEF r
<1>13. ASSUME NEW m \in Nodes, NEW o \in Nodes
       PROVE  IF UpIn(nd, m, o)
              THEN Agree(q[<<m, o>>], k[<<o, m>>], nd[o].rx[m], nd[m].sent[o], nd[m].unacked[o], nd[m].fd)
              ELSE q[<<m, o>>] = <<>> /\ k[<<m, o>>] = 0
  <2>0. IF UpIn(node, m, o)
        THEN Agree(queue[<<m, o>>], acks[<<o, m>>], node[o].rx[m], node[m].sent[o], node[m].unacked[o], node[m].fd)
        ELSE queue[<<m, o>>] = <<>> /\ acks[<<m, o>>] = 0
    BY SMTT(60) DEF Net, NetInv
  <2>1. CASE m = p /\ o = n
    BY ZenonT(60), <1>2, <1>5, <1>6, <1>7, <1>8, <1>9, <1>10, <1>11, <2>1
  <2>2. CASE ~(m = p /\ o = n)
    <3>1. q[<<m, o>>] = queue[<<m, o>>] /\ k[<<o, m>>] = acks[<<o, m>>]
      BY SMTT(60), <1>6, <1>7, <2>2
    <3>2. ~UpIn(node, m, o) => <<m, o>> # <<n, p>>
      BY <1>2 DEF UpIn
    <3>3. ~UpIn(node, m, o) => k[<<m, o>>] = acks[<<m, o>>]
      BY SMTT(60), <1>7, <3>2
    <3> QED BY <1>10, <1>11, <1>12, <2>0, <2>2, <3>1, <3>3
  <2> QED BY SMTT(60), <2>1, <2>2
<1>14. /\ \A m \in Nodes : m \notin nd[m].peers
       /\ \A m, o \in Nodes : nd[m].link[o] # None => nd[o].link[m] # None
  <2>1. /\ \A m \in Nodes : m \notin node[m].peers
        /\ \A m, o \in Nodes : node[m].link[o] # None => node[o].link[m] # None
    BY SMTT(60) DEF Net, NetInv
  <2> QED BY SMTT(60), <1>10, <2>1
<1>15. NetInv(nd, q, k)
  BY SMTT(60), <1>6, <1>7, <1>9, <1>10, <1>13, <1>14 DEF NetInv
<1> QED BY <1>1, <1>8, <1>15, FlushUpdate DEF nd, r

\* echo preserves the invariant.
LEMMA TakeEchoOK ==
    ASSUME Counting, Net, NEW n \in Nodes, NEW p \in Nodes, TakeEcho(n, p) PROVE Net'
<1> DEFINE k == [acks EXCEPT ![<<p, n>>] = @ - 1]  r == node[n]
           v == [r EXCEPT !.unacked[p] = @ - 1]
           nd == [node EXCEPT ![n] = v]
<1>0. /\ r \in NodeStates /\ Sane(r) /\ Silent(r)
      /\ queue \in [Pairs -> Seq(Messages)] /\ acks \in [Pairs -> Nat]
      /\ node \in [Nodes -> NodeStates]
  BY DEF Net, NetInv
<1>1. acks[<<p, n>>] > 0 /\ Flush(n, Echoed(r, p), queue, k)
  BY DEF TakeEcho
<1>2. UpIn(node, n, p) /\ UpIn(node, p, n) /\ p # n /\ p \in r.peers
  <2>1. IF UpIn(node, p, n) THEN TRUE ELSE acks[<<p, n>>] = 0
    BY ZenonT(60) DEF Net, NetInv
  <2>2. UpIn(node, p, n)
    <3> HIDE DEF k, v, nd
    <3> QED BY <1>1, <2>1
  <2> QED BY SMTT(60), <2>2 DEF UpIn, Net, NetInv
<1>3. Agree(queue[<<n, p>>], acks[<<p, n>>], node[p].rx[n], r.sent[p], r.unacked[p], r.fd)
  BY <1>2 DEF Net, NetInv
<1>4. acks[<<p, n>>] \in Nat /\ r.unacked[p] \in Nat /\ queue[<<n, p>>] \in Seq(Messages)
  BY <1>0 DEF Pairs, NodeStates
<1>5. /\ r.unacked[p] > 0
      /\ Agree(queue[<<n, p>>], acks[<<p, n>>] - 1, node[p].rx[n], r.sent[p], r.unacked[p] - 1, r.fd)
  BY SMTT(60), <1>1, <1>3, <1>4, AgreeEcho
<1> HIDE DEF r
<1>6. Flush(n, Update(v), queue, k)
  BY SMTT(60), <1>1, <1>4, <1>5 DEF Echoed
<1>7. /\ k \in [Pairs -> Nat] /\ k[<<p, n>>] = acks[<<p, n>>] - 1
      /\ \A m, o \in Nodes : <<m, o>> # <<p, n>> => k[<<m, o>>] = acks[<<m, o>>]
  BY SMTT(60), <1>0, <1>1, <1>4 DEF Pairs
<1>8. /\ v \in NodeStates /\ Sane(v) /\ Silent(v)
      /\ v.link = r.link /\ v.peers = r.peers /\ v.sent = r.sent /\ v.rx = r.rx /\ v.fd = r.fd
      /\ v.unacked[p] = r.unacked[p] - 1 /\ \A o \in Nodes : o # p => v.unacked[o] = r.unacked[o]
  <2> DEFINE un == [r.unacked EXCEPT ![p] = @ - 1]
  <2>1. /\ un \in [Nodes -> Nat] /\ un[p] = r.unacked[p] - 1
        /\ \A o \in Nodes : o # p => un[o] = r.unacked[o]
    <3>1. r.unacked \in [Nodes -> Nat]
      BY <1>0 DEF NodeStates
    <3>2. r.unacked[p] - 1 \in Nat
      <4> HIDE DEF un, v, k, nd
      <4> QED BY <1>4, <1>5
    <3> QED BY <3>1, <3>2
  <2>2. v = [r EXCEPT !.unacked = un]
    OBVIOUS
  <2> HIDE DEF un, v
  <2> QED BY ZenonT(60), <1>0, <1>2, <2>1, <2>2 DEF NodeStates, Sane, Silent
<1> HIDE DEF k, v
<1>9. /\ nd \in [Nodes -> NodeStates] /\ nd[n] = v /\ \A m \in Nodes : m # n => nd[m] = node[m]
  BY SMTT(60), <1>0, <1>8
<1> HIDE DEF nd
<1>10. \A m \in Nodes : /\ nd[m].link = node[m].link /\ nd[m].peers = node[m].peers
                        /\ nd[m].sent = node[m].sent /\ nd[m].rx = node[m].rx
                        /\ nd[m].fd = node[m].fd /\ Sane(nd[m]) /\ Silent(nd[m])
  BY SMTT(60), <1>8, <1>9 DEF Net, NetInv, r
<1>11. \A m, o \in Nodes : UpIn(nd, m, o) <=> UpIn(node, m, o)
  BY SMTT(60), <1>10 DEF UpIn
<1>12. \A m, o \in Nodes : ~(m = n /\ o = p) => nd[m].unacked[o] = node[m].unacked[o]
  BY SMTT(60), <1>8, <1>9 DEF r
<1>13. ASSUME NEW m \in Nodes, NEW o \in Nodes
       PROVE  IF UpIn(nd, m, o)
              THEN Agree(queue[<<m, o>>], k[<<o, m>>], nd[o].rx[m], nd[m].sent[o], nd[m].unacked[o], nd[m].fd)
              ELSE queue[<<m, o>>] = <<>> /\ k[<<m, o>>] = 0
  <2>0. IF UpIn(node, m, o)
        THEN Agree(queue[<<m, o>>], acks[<<o, m>>], node[o].rx[m], node[m].sent[o], node[m].unacked[o], node[m].fd)
        ELSE queue[<<m, o>>] = <<>> /\ acks[<<m, o>>] = 0
    BY DEF Net, NetInv
  <2>1. CASE m = n /\ o = p
    BY SMTT(60), <1>2, <1>5, <1>7, <1>8, <1>9, <1>10, <1>11, <2>1
  <2>2. CASE ~(m = n /\ o = p)
    <3>1. k[<<o, m>>] = acks[<<o, m>>]
      BY SMTT(60), <1>7, <2>2
    <3>2. ~UpIn(node, m, o) => <<m, o>> # <<p, n>>
      BY SMTT(60), <1>2
    <3>3. ~UpIn(node, m, o) => k[<<m, o>>] = acks[<<m, o>>]
      BY SMTT(60), <1>7, <3>2
    <3> QED BY SMTT(60), <1>10, <1>11, <1>12, <2>0, <2>2, <3>1, <3>3
  <2> QED BY SMTT(60), <2>1, <2>2
<1>14. /\ \A m \in Nodes : m \notin nd[m].peers
       /\ \A m, o \in Nodes : nd[m].link[o] # None => nd[o].link[m] # None
  <2>1. /\ \A m \in Nodes : m \notin node[m].peers
        /\ \A m, o \in Nodes : node[m].link[o] # None => node[o].link[m] # None
    BY DEF Net, NetInv
  <2> QED BY SMTT(60), <1>10, <2>1
<1>15. NetInv(nd, queue, k)
  BY SMTT(60), <1>0, <1>7, <1>9, <1>10, <1>13, <1>14 DEF NetInv
<1> QED BY SMTT(60), <1>6, <1>8, <1>15, FlushUpdate DEF nd, r

\* disconnect preserves the invariant, though the other end may not know yet.
LEMMA DropOK ==
    ASSUME Counting, Net, NEW n \in Nodes, NEW p \in Nodes, p \in node[n].peers, Drop(n, p) PROVE Net'
<1> DEFINE q == Lost(Between(n, p))  k == Unechoed(Between(n, p))  r == node[n]
           w == IF r.pending = None THEN None ELSE [r.pending EXCEPT !.from = @ \ {p}]
           v == [r EXCEPT !.peers = @ \ {p}, !.streams = @ \ {p}, !.draining = @ \ {p},
                          !.rx[p] = None, !.sent[p] = None, !.unacked[p] = 0, !.pending = w]
           nd == [node EXCEPT ![n] = v]
<1>0. /\ r \in NodeStates /\ Sane(r) /\ Silent(r) /\ p # n
      /\ queue \in [Pairs -> Seq(Messages)] /\ acks \in [Pairs -> Nat]
      /\ node \in [Nodes -> NodeStates]
  BY DEF Net, NetInv
<1>1. Flush(n, Update(v), q, k) \/ Flush(n, v, q, k)
  <2>1. Disconnected(r, p) = Update(v) \/ Disconnected(r, p) = v
    BY Zenon DEF Disconnected
  <2> QED BY <2>1 DEF Drop
<1>2. /\ q \in [Pairs -> Seq(Messages)] /\ k \in [Pairs -> Nat]
      /\ \A m, o \in Nodes :
            IF <<m, o>> \in Between(n, p) THEN q[<<m, o>>] = <<>> /\ k[<<m, o>>] = 0
            ELSE q[<<m, o>>] = queue[<<m, o>>] /\ k[<<m, o>>] = acks[<<m, o>>]
  BY <1>0 DEF Lost, Unechoed, Pairs
<1> HIDE DEF q, k
<1>3. w \in Pendings \cup {None}
  BY Zenon, <1>0 DEF Pendings, NodeStates
<1> HIDE DEF w, r
<1>4. /\ v \in NodeStates /\ Sane(v) /\ Silent(v)
      /\ v.link = r.link /\ v.peers = r.peers \ {p} /\ v.fd = r.fd
      /\ \A o \in Nodes : o # p => /\ v.rx[o] = r.rx[o] /\ v.sent[o] = r.sent[o]
                                   /\ v.unacked[o] = r.unacked[o]
  <2> DEFINE rx == [r.rx EXCEPT ![p] = None]  sn == [r.sent EXCEPT ![p] = None]
             un == [r.unacked EXCEPT ![p] = 0]
  <2>1. /\ rx \in [Nodes -> Entries \cup {None}] /\ sn \in [Nodes -> Adverts \cup {Held, None}]
        /\ un \in [Nodes -> Nat]
    BY SMTT(60), <1>0 DEF NodeStates
  <2>2. /\ rx[p] = None /\ sn[p] = None /\ un[p] = 0
        /\ \A o \in Nodes : o # p => rx[o] = r.rx[o] /\ sn[o] = r.sent[o] /\ un[o] = r.unacked[o]
    BY <1>0 DEF NodeStates
  <2>3. v = [r EXCEPT !.peers = @ \ {p}, !.streams = @ \ {p}, !.draining = @ \ {p},
                      !.rx = rx, !.sent = sn, !.unacked = un, !.pending = w]
    OBVIOUS
  <2> HIDE DEF rx, sn, un, v
  <2>4. /\ v \in NodeStates /\ v.link = r.link /\ v.peers = r.peers \ {p} /\ v.fd = r.fd
        /\ v.rx = rx /\ v.sent = sn /\ v.unacked = un /\ v.out = r.out
        /\ v.streams = r.streams \ {p}
    BY ZenonT(60), <1>0, <1>3, <2>1, <2>3 DEF NodeStates
  <2> QED BY <1>0, <2>2, <2>4 DEF Sane, Silent
<1> HIDE DEF v
<1>5. /\ nd \in [Nodes -> NodeStates] /\ nd[n] = v /\ \A m \in Nodes : m # n => nd[m] = node[m]
  BY <1>0, <1>4
<1> HIDE DEF nd
<1>6. \A m \in Nodes : /\ nd[m].link = node[m].link /\ nd[m].fd = node[m].fd
                       /\ Sane(nd[m]) /\ Silent(nd[m]) /\ m \notin nd[m].peers
  BY <1>4, <1>5 DEF Net, NetInv, r
<1>7. \A m, o \in Nodes : UpIn(nd, m, o) <=> UpIn(node, m, o) /\ <<m, o>> \notin Between(n, p)
  BY SMTT(60), <1>0, <1>4, <1>5 DEF UpIn, Between, r
<1>8. \A m, o \in Nodes : <<m, o>> \notin Between(n, p) =>
          /\ nd[o].rx[m] = node[o].rx[m] /\ nd[m].sent[o] = node[m].sent[o]
          /\ nd[m].unacked[o] = node[m].unacked[o] /\ <<o, m>> \notin Between(n, p)
  BY SMTT(60), <1>4, <1>5 DEF Between, r
<1>9. ASSUME NEW m \in Nodes, NEW o \in Nodes
      PROVE  IF UpIn(nd, m, o)
             THEN Agree(q[<<m, o>>], k[<<o, m>>], nd[o].rx[m], nd[m].sent[o], nd[m].unacked[o], nd[m].fd)
             ELSE q[<<m, o>>] = <<>> /\ k[<<m, o>>] = 0
  <2>1. IF UpIn(node, m, o)
        THEN Agree(queue[<<m, o>>], acks[<<o, m>>], node[o].rx[m], node[m].sent[o], node[m].unacked[o], node[m].fd)
        ELSE queue[<<m, o>>] = <<>> /\ acks[<<m, o>>] = 0
    BY SMTT(60) DEF Net, NetInv
  <2> QED BY SMTT(60), <1>2, <1>6, <1>7, <1>8, <2>1
<1>10. \A m, o \in Nodes : nd[m].link[o] # None => nd[o].link[m] # None
  BY SMTT(60), <1>6 DEF Net, NetInv
<1>11. NetInv(nd, q, k)
  BY SMTT(60), <1>2, <1>5, <1>6, <1>9, <1>10 DEF NetInv
<1>12. CASE Flush(n, Update(v), q, k)
  BY SMTT(60), <1>4, <1>11, <1>12, FlushUpdate DEF nd, r
<1>13. CASE Flush(n, v, q, k)
  BY SMTT(60), <1>4, <1>11, <1>13, FlushPlain DEF nd, r
<1> QED BY Zenon, <1>1, <1>12, <1>13

\* A process that exits and restarts preserves the invariant: nothing it had said is held
\* by a session that is up.
LEMMA ExitOK ==
    ASSUME Counting, Net, NEW n \in Nodes, Exit(n) PROVE Net'
<1> DEFINE S == UNION {Between(n, p) : p \in Nodes}  q == Lost(S)  k == Unechoed(S)
           r == New(node[n].link)  nd == [node EXCEPT ![n] = r]
<1>0. /\ queue \in [Pairs -> Seq(Messages)] /\ acks \in [Pairs -> Nat]
      /\ node \in [Nodes -> NodeStates] /\ node[n].link \in [Nodes -> Links \cup {None}]
  BY SMTT(60) DEF Net, NetInv, NodeStates
<1>1. node' = nd /\ queue' = q /\ acks' = k
  BY DEF Exit
<1>2. \A m, o \in Nodes : <<m, o>> \in S <=> m = n \/ o = n
  BY SMTT(60) DEF Between
<1> HIDE DEF S
<1>3. /\ q \in [Pairs -> Seq(Messages)] /\ k \in [Pairs -> Nat]
      /\ \A m, o \in Nodes :
            IF m = n \/ o = n THEN q[<<m, o>>] = <<>> /\ k[<<m, o>>] = 0
            ELSE q[<<m, o>>] = queue[<<m, o>>] /\ k[<<m, o>>] = acks[<<m, o>>]
  <2>1. <<>> \in Seq(Messages)
    OBVIOUS
  <2>2. q \in [Pairs -> Seq(Messages)]
    BY <1>0, <2>1 DEF Lost
  <2>3. k \in [Pairs -> Nat]
    BY <1>0 DEF Unechoed
  <2>4. ASSUME NEW x \in Pairs
        PROVE  /\ q[x] = IF x \in S THEN <<>> ELSE queue[x]
               /\ k[x] = IF x \in S THEN 0 ELSE acks[x]
    BY DEF Lost, Unechoed
  <2> HIDE DEF q, k
  <2>5. ASSUME NEW m \in Nodes, NEW o \in Nodes
        PROVE  IF m = n \/ o = n THEN q[<<m, o>>] = <<>> /\ k[<<m, o>>] = 0
               ELSE q[<<m, o>>] = queue[<<m, o>>] /\ k[<<m, o>>] = acks[<<m, o>>]
    <3>1. <<m, o>> \in Pairs
      BY SMTT(60) DEF Pairs
    <3> QED BY SMTT(60), <1>2, <2>4, <3>1
  <2> QED BY <2>2, <2>3, <2>5
<1>4. r \in NodeStates /\ Sane(r) /\ Silent(r) /\ r.peers = {} /\ r.link = node[n].link
  <2>1. <<>> \in Seq(Messages)
    OBVIOUS
  <2>2. /\ [p \in Nodes |-> None] \in [Nodes -> Entries \cup {None}]
        /\ [p \in Nodes |-> None] \in [Nodes -> Adverts \cup {Held, None}]
        /\ [p \in Nodes |-> 0] \in [Nodes -> Nat]
        /\ [p \in Nodes |-> <<>>] \in [Nodes -> Seq(Messages)]
    BY <2>1
  <2>3. r \in NodeStates
    BY <1>0, <2>2 DEF New, NodeStates
  <2>4. /\ r.peers = {} /\ r.streams = {} /\ r.link = node[n].link
        /\ r.rx = [p \in Nodes |-> None] /\ r.sent = [p \in Nodes |-> None]
        /\ r.unacked = [p \in Nodes |-> 0] /\ r.out = [p \in Nodes |-> <<>>]
    BY DEF New
  <2> HIDE DEF r
  <2> QED BY <2>3, <2>4 DEF Sane, Silent
<1> HIDE DEF q, k, r
<1>5. /\ nd \in [Nodes -> NodeStates] /\ nd[n] = r /\ \A m \in Nodes : m # n => nd[m] = node[m]
  BY <1>0, <1>4
<1> HIDE DEF nd
<1>6. \A m \in Nodes : nd[m].link = node[m].link /\ Sane(nd[m]) /\ Silent(nd[m]) /\ m \notin nd[m].peers
  BY SMTT(60), <1>4, <1>5 DEF Net, NetInv
<1>7. \A m, o \in Nodes : UpIn(nd, m, o) <=> UpIn(node, m, o) /\ m # n /\ o # n
  BY SMTT(60), <1>4, <1>5 DEF UpIn
<1>8. ASSUME NEW m \in Nodes, NEW o \in Nodes
      PROVE  IF UpIn(nd, m, o)
             THEN Agree(q[<<m, o>>], k[<<o, m>>], nd[o].rx[m], nd[m].sent[o], nd[m].unacked[o], nd[m].fd)
             ELSE q[<<m, o>>] = <<>> /\ k[<<m, o>>] = 0
  <2>1. IF UpIn(node, m, o)
        THEN Agree(queue[<<m, o>>], acks[<<o, m>>], node[o].rx[m], node[m].sent[o], node[m].unacked[o], node[m].fd)
        ELSE queue[<<m, o>>] = <<>> /\ acks[<<m, o>>] = 0
    BY SMTT(60) DEF Net, NetInv
  <2> QED BY SMTT(60), <1>3, <1>5, <1>7, <2>1
<1>9. \A m, o \in Nodes : nd[m].link[o] # None => nd[o].link[m] # None
  BY SMTT(60), <1>6 DEF Net, NetInv
<1>10. NetInv(nd, q, k)
  BY SMTT(60), <1>3, <1>5, <1>6, <1>8, <1>9 DEF NetInv
<1> QED BY SMTT(60), <1>1, <1>10 DEF Net

\* connect leaves everything but the sessions alone.
LEMMA ConnectedOK ==
    ASSUME Counting, NEW r \in NodeStates, Sane(r), Silent(r), NEW p \in Nodes, r.link[p] # None
    PROVE  LET v == Connected(r, p) IN
           /\ v \in NodeStates /\ Sane(v) /\ Silent(v) /\ v.peers = r.peers \cup {p}
           /\ v.link = r.link /\ v.rx = r.rx /\ v.sent = r.sent
           /\ v.unacked = r.unacked /\ v.fd = r.fd
  BY ZenonT(60) DEF Connected, NodeStates, Sane, Silent

\* A new session starts with nothing held and nothing in flight.
LEMMA ConnectOK ==
    ASSUME Counting, Net, NEW n \in Nodes, NEW p \in Nodes, Connect(n, p) PROVE Net'
<1> DEFINE a == Connected(node[n], p)  b == Connected(node[p], n)
<1>0. /\ queue \in [Pairs -> Seq(Messages)] /\ acks \in [Pairs -> Nat]
      /\ node \in [Nodes -> NodeStates] /\ n # p
      /\ node[n].link[p] # None /\ node[p].link[n] # None
      /\ p \notin node[n].peers /\ n \notin node[p].peers
      /\ Sane(node[n]) /\ Silent(node[n]) /\ Sane(node[p]) /\ Silent(node[p])
      /\ queue' = queue /\ acks' = acks
  BY RouterAssumption DEF Net, NetInv, Connect
<1>1. node' = [node EXCEPT ![n] = a, ![p] = b]
  BY SMTT(60), <1>0 DEF Connect
<1>2. /\ a \in NodeStates /\ Sane(a) /\ Silent(a) /\ a.peers = node[n].peers \cup {p}
      /\ a.link = node[n].link /\ a.rx = node[n].rx /\ a.sent = node[n].sent
      /\ a.unacked = node[n].unacked /\ a.fd = node[n].fd
  BY SMTT(60), <1>0, ConnectedOK
<1>3. /\ b \in NodeStates /\ Sane(b) /\ Silent(b) /\ b.peers = node[p].peers \cup {n}
      /\ b.link = node[p].link /\ b.rx = node[p].rx /\ b.sent = node[p].sent
      /\ b.unacked = node[p].unacked /\ b.fd = node[p].fd
  BY SMTT(60), <1>0, ConnectedOK
<1> HIDE DEF a, b
<1>4. /\ node' \in [Nodes -> NodeStates] /\ node'[n] = a /\ node'[p] = b
      /\ \A m \in Nodes : m \notin {n, p} => node'[m] = node[m]
  BY SMTT(60), <1>0, <1>1, <1>2, <1>3
<1>5. \A m \in Nodes : /\ node'[m].link = node[m].link /\ node'[m].rx = node[m].rx
                       /\ node'[m].sent = node[m].sent /\ node'[m].unacked = node[m].unacked
                       /\ node'[m].fd = node[m].fd /\ Sane(node'[m]) /\ Silent(node'[m])
                       /\ m \notin node'[m].peers
  <2>1. \A m \in Nodes : Sane(node[m]) /\ Silent(node[m]) /\ m \notin node[m].peers
    BY SMTT(60) DEF Net, NetInv
  <2> TAKE m \in Nodes
  <2>2. CASE m = n
    BY SMTT(60), <1>0, <1>2, <1>4, <2>1, <2>2
  <2>3. CASE m = p
    BY SMTT(60), <1>0, <1>3, <1>4, <2>1, <2>3
  <2>4. CASE m \notin {n, p}
    BY SMTT(60), <1>4, <2>1, <2>4
  <2> QED BY SMTT(60), <2>2, <2>3, <2>4
<1>6. \A m, o \in Nodes : UpIn(node', m, o) <=> UpIn(node, m, o) \/ <<m, o>> \in Between(n, p)
  BY SMTT(60), <1>0, <1>2, <1>3, <1>4 DEF UpIn, Between
<1>7. ASSUME NEW m \in Nodes, NEW o \in Nodes
      PROVE  IF UpIn(node', m, o)
             THEN Agree(queue[<<m, o>>], acks[<<o, m>>], node'[o].rx[m], node'[m].sent[o], node'[m].unacked[o], node'[m].fd)
             ELSE queue[<<m, o>>] = <<>> /\ acks[<<m, o>>] = 0
  <2>1. IF UpIn(node, m, o)
        THEN Agree(queue[<<m, o>>], acks[<<o, m>>], node[o].rx[m], node[m].sent[o], node[m].unacked[o], node[m].fd)
        ELSE queue[<<m, o>>] = <<>> /\ acks[<<m, o>>] = 0
    BY DEF Net, NetInv
  <2>2. CASE <<m, o>> \notin Between(n, p)
    BY SMTT(60), <1>5, <1>6, <2>1, <2>2
  <2>3. CASE <<m, o>> \in Between(n, p)
    <3>1. /\ o \notin node[m].peers /\ m \notin node[o].peers
          /\ ~UpIn(node, m, o) /\ ~UpIn(node, o, m)
      BY SMTT(60), <1>0, <2>3 DEF Between, UpIn
    <3>2. queue[<<m, o>>] = <<>> /\ acks[<<o, m>>] = 0
      BY SMTT(60), <3>1 DEF Net, NetInv
    <3>3. node[o].rx[m] = None /\ node[m].sent[o] = None /\ node[m].unacked[o] = 0
      BY SMTT(60), <3>1 DEF Net, NetInv, Sane
    <3> QED BY SMTT(60), <1>5, <1>6, <2>3, <3>2, <3>3, AgreeNew
  <2> QED BY SMTT(60), <2>2, <2>3
<1>8. \A m, o \in Nodes : node'[m].link[o] # None => node'[o].link[m] # None
  <2>1. \A m, o \in Nodes : node[m].link[o] # None => node[o].link[m] # None
    BY DEF Net, NetInv
  <2>2. \A m \in Nodes : node'[m].link = node[m].link
    BY <1>5
  <2> QED BY <2>1, <2>2
<1>9. NetInv(node', queue, acks)
  BY Zenon, <1>0, <1>4, <1>5, <1>7, <1>8 DEF NetInv
<1> QED BY <1>0, <1>9 DEF Net

\* The node r as it stands in the settled network s.
AtRest(s, n, r) ==
    /\ r \in NodeStates /\ Sane(r) /\ Silent(r)
    /\ r.peers = Sessions(s, n)
    /\ \A p \in Nodes :
        /\ r.link[p] = s.links[<<n, p>>]
        /\ r.sent[p] = Told(s, n, p) /\ r.unacked[p] = 0
        /\ r.rx[p] = IF Told(s, p, n) = None THEN None
                     ELSE [advert |-> Told(s, p, n), held |-> FALSE]
        /\ Told(s, n, p) # None => ~FeasibleFrom(r.fd, Told(s, n, p))

\* What a node of a settled network told another is an advertisement of the settled seqno.
LEMMA ToldType ==
    ASSUME NEW s \in Scenarios, NEW m \in Nodes, NEW p \in Nodes
    PROVE  \/ Told(s, m, p) = None
           \/ /\ Told(s, m, p) \in Adverts /\ s.links[<<m, p>>] # None
              /\ Told(s, m, p).seqno = s.seqno /\ Told(s, m, p).metric = s.dist[m]
<1> DEFINE down == m \in s.down  a == Advert(s.seqno, s.dist[m], down)
<1>1. s.seqno \in Nat /\ s.dist[m] \in Nat /\ down \in BOOLEAN
  BY MeshAssumption
<1>2. Told(s, m, p) = None \/ (Told(s, m, p) = a /\ s.links[<<m, p>>] # None)
  <2> DEFINE told == /\ s.links[<<m, p>>] # None
                     /\ s.links[<<m, p>>].proxy \/ m = Origin
                     /\ ~(s.links[<<m, p>>].upstream /\ m \in s.down)
  <2>1. Told(s, m, p) = IF told THEN a ELSE None
    BY DEF Told
  <2>2. told => s.links[<<m, p>>] # None
    OBVIOUS
  <2>3. CASE told
    BY SMTT(60), <2>1, <2>2, <2>3
  <2>4. CASE ~told
    BY SMTT(60), <2>1, <2>4
  <2> QED BY <2>3, <2>4
<1> HIDE DEF down
<1>3. a \in Adverts /\ a.seqno = s.seqno /\ a.metric = s.dist[m]
  BY <1>1 DEF Advert, Adverts
<1> HIDE DEF a
<1> QED BY <1>2, <1>3

\* A node of a settled network is at rest.
LEMMA SettledOK ==
    ASSUME Counting, NEW s \in Scenarios, NEW n \in Nodes
    PROVE  AtRest(s, n, SettledNode(s, n))
<1> DEFINE link == [p \in Nodes |-> s.links[<<n, p>>]]
           sent == [p \in Nodes |-> Told(s, n, p)]
           rx == [p \in Nodes |-> IF Told(s, p, n) = None THEN None
                                  ELSE [advert |-> Told(s, p, n), held |-> FALSE]]
           d == [seqno |-> s.seqno, metric |-> s.dist[n]]
           fd == IF \E p \in Nodes : Told(s, n, p) # None THEN d ELSE None
           orig == IF n = Origin THEN s.seqno ELSE None
           r == SettledNode(s, n)
<1>0. /\ s.links \in [Pairs -> Links \cup {None}] /\ s.seqno \in Nat
      /\ s.dist[n] \in Nat
      /\ \A m, p \in Nodes : s.links[<<m, p>>] # None => m # p /\ s.links[<<p, m>>] # None
  BY SMTT(60), MeshAssumption
<1>1. \A m, p \in Nodes :
          \/ Told(s, m, p) = None
          \/ /\ Told(s, m, p) \in Adverts /\ s.links[<<m, p>>] # None
             /\ Told(s, m, p).seqno = s.seqno /\ Told(s, m, p).metric = s.dist[m]
  BY ZenonT(60), ToldType
<1>2. /\ link \in [Nodes -> Links \cup {None}] /\ sent \in [Nodes -> Adverts \cup {Held, None}]
      /\ \A p \in Nodes : link[p] = s.links[<<n, p>>] /\ sent[p] = Told(s, n, p)
  BY Zenon, <1>0, <1>1 DEF Pairs
<1>3. /\ rx \in [Nodes -> Entries \cup {None}]
      /\ \A p \in Nodes : rx[p] = IF Told(s, p, n) = None THEN None
                                   ELSE [advert |-> Told(s, p, n), held |-> FALSE]
  BY ZenonT(60), <1>1 DEF Entries
<1>4. d \in Distances /\ d # None /\ d.seqno = s.seqno /\ d.metric = s.dist[n]
  BY <1>0, RouterAssumption DEF Distances
<1> HIDE DEF d
<1>5. fd \in Distances \cup {None} /\ orig \in Nat \cup {None} /\ Sessions(s, n) \subseteq Nodes
  BY SMTT(60), <1>0, <1>4 DEF Sessions
<1>6. \A p \in Nodes : Told(s, n, p) # None => ~FeasibleFrom(fd, Told(s, n, p))
  <2> SUFFICES ASSUME NEW p \in Nodes, Told(s, n, p) # None PROVE ~FeasibleFrom(fd, Told(s, n, p))
    OBVIOUS
  <2>1. fd = d
    OBVIOUS
  <2>2. Told(s, n, p).seqno = d.seqno /\ Told(s, n, p).metric = d.metric
    BY Zenon, <1>1, <1>4
  <2>3. d.seqno \in Nat /\ d.metric \in Nat
    BY <1>0, <1>4
  <2> HIDE DEF fd
  <2> QED BY SMTT(60), <1>4, <2>1, <2>2, <2>3 DEF FeasibleFrom
<1>7. \A p \in Nodes : p \notin Sessions(s, n) => rx[p] = None /\ sent[p] = None
  BY Zenon, <1>0, <1>1 DEF Sessions
<1>8. \A p \in Nodes : p \in Sessions(s, n) => link[p] # None
  BY DEF Sessions
<1>9. r = [New(link) EXCEPT !.peers = Sessions(s, n), !.streams = Sessions(s, n),
             !.origin = orig, !.fd = fd, !.rx = rx, !.sent = sent]
  BY Zenon DEF SettledNode, d
<1> HIDE DEF r, link, sent, rx, fd, orig
<1>10. r = [link |-> link, peers |-> Sessions(s, n), streams |-> Sessions(s, n), draining |-> {},
            origin |-> orig, fd |-> fd, pending |-> None, rx |-> rx, sent |-> sent,
            unacked |-> [p \in Nodes |-> 0], out |-> [p \in Nodes |-> <<>>]]
  BY ZenonT(60), <1>9 DEF New
<1>11. r \in NodeStates
  BY <1>2, <1>3, <1>5, <1>10 DEF NodeStates
<1>12. Sane(r) /\ Silent(r)
  BY ZenonT(60), <1>7, <1>8, <1>10 DEF Sane, Silent
<1>13. AtRest(s, n, r)
  BY ZenonT(60), <1>2, <1>3, <1>6, <1>10, <1>11, <1>12 DEF AtRest
<1> QED BY SMTT(60), <1>13 DEF r

\* A settled network satisfies the invariant.
LEMMA InitOK == Counting /\ Init => Net
<1> SUFFICES ASSUME Counting, Init PROVE Net
  OBVIOUS
<1>1. PICK s \in Scenarios : node = [n \in Nodes |-> SettledNode(s, n)]
  BY DEF Init
<1>2. \A n \in Nodes : AtRest(s, n, node[n])
  BY SMTT(60), <1>1, SettledOK
<1>3. node \in [Nodes -> NodeStates]
  BY SMTT(60), <1>1, <1>2 DEF AtRest
<1>4. /\ queue \in [Pairs -> Seq(Messages)] /\ acks \in [Pairs -> Nat]
      /\ \A m, o \in Nodes : queue[<<m, o>>] = <<>> /\ acks[<<m, o>>] = 0
  <2>1. <<>> \in Seq(Messages)
    OBVIOUS
  <2>2. queue = [x \in Pairs |-> <<>>] /\ acks = [x \in Pairs |-> 0]
    BY DEF Init
  <2>3. \A m, o \in Nodes : <<m, o>> \in Pairs
    BY DEF Pairs
  <2> QED BY SMTT(60), <2>1, <2>2, <2>3
<1>5. \A m, p \in Nodes : s.links[<<m, p>>] # None => m # p /\ s.links[<<p, m>>] # None
  BY SMTT(60), MeshAssumption
<1>6. /\ \A n \in Nodes : Sane(node[n]) /\ Silent(node[n]) /\ n \notin node[n].peers
      /\ \A n, p \in Nodes : node[n].link[p] # None => node[p].link[n] # None
  <2>1. \A n \in Nodes : /\ Sane(node[n]) /\ Silent(node[n]) /\ node[n].peers = Sessions(s, n)
                         /\ \A p \in Nodes : node[n].link[p] = s.links[<<n, p>>]
    BY Zenon, <1>2 DEF AtRest
  <2>2. \A n \in Nodes : n \notin Sessions(s, n)
    BY <1>5 DEF Sessions
  <2>3. \A n \in Nodes : \A p \in Nodes : node[n].link[p] # None => node[p].link[n] # None
    <3> TAKE n \in Nodes
    <3> TAKE p \in Nodes
    <3>1. node[n].link[p] = s.links[<<n, p>>] /\ node[p].link[n] = s.links[<<p, n>>]
      BY Zenon, <2>1
    <3> QED BY Zenon, <1>5, <3>1
  <2> QED BY Zenon, <2>1, <2>2, <2>3
<1>7. ASSUME NEW m \in Nodes, NEW o \in Nodes
      PROVE  Agree(<<>>, 0, node[o].rx[m], node[m].sent[o], node[m].unacked[o], node[m].fd)
  <2> DEFINE e == node[o].rx[m]  t == Told(s, m, o)  fd == node[m].fd
  <2>1. /\ e = IF t = None THEN None ELSE [advert |-> t, held |-> FALSE]
        /\ node[m].sent[o] = t /\ node[m].unacked[o] = 0
        /\ t # None => ~FeasibleFrom(fd, t)
    BY Zenon, <1>2 DEF AtRest
  <2>2. Agree(<<>>, 0, None, None, 0, fd)
    BY AgreeNew
  <2>3. Ends(<<>>) \in Nat
    <3>1. <<>> \in Seq(Messages)
      OBVIOUS
    <3> QED BY ZenonT(60), <3>1, EndsType
  <2> HIDE DEF e, t, fd
  <2>4. 0 = Ends(<<>>) + 0
    BY <2>2, <2>3 DEF Agree
  <2>5. /\ e # None => ~FeasibleFrom(fd, e.advert)
        /\ t = None => e = None
    BY SMTT(60), <2>1
  <2>6. Agree(<<>>, 0, e, t, 0, fd)
    BY SMTT(60), <2>4, <2>5 DEF Agree
  <2> QED BY SMTT(60), <2>1, <2>6 DEF e, fd
<1>8. ASSUME NEW m \in Nodes, NEW o \in Nodes
      PROVE  IF UpIn(node, m, o)
             THEN Agree(queue[<<m, o>>], acks[<<o, m>>], node[o].rx[m], node[m].sent[o], node[m].unacked[o], node[m].fd)
             ELSE queue[<<m, o>>] = <<>> /\ acks[<<m, o>>] = 0
  BY SMTT(60), <1>4, <1>7
<1> QED BY SMTT(60), <1>3, <1>4, <1>6, <1>8 DEF Net, NetInv

\* Every step preserves the invariant.
LEMMA NextOK == Counting /\ Net /\ [Next]_vars => Net'
<1> SUFFICES ASSUME Counting, Net, [Next]_vars PROVE Net'
  OBVIOUS
<1>1. ASSUME NEW n \in Nodes, NEW p \in Nodes, Connect(n, p) PROVE Net'
  BY <1>1, ConnectOK
<1>2. ASSUME NEW n \in Nodes, NEW p \in Nodes, OpenStream(n, p) PROVE Net'
  BY SMTT(60), <1>2, OpenStreamOK
<1>3. ASSUME NEW n \in Nodes, NEW p \in Nodes, Close(n, p) PROVE Net'
  BY <1>3, DropOK DEF Close, Up
<1>4. ASSUME NEW n \in Nodes, NEW p \in Nodes, Notice(n, p) PROVE Net'
  BY SMTT(60), <1>4, DropOK DEF Notice
<1>5. ASSUME NEW n \in Nodes, NEW p \in Nodes, Drain(n, p) PROVE Net'
  BY <1>5, DrainOK
<1>6. ASSUME NEW n \in Nodes, NEW p \in Nodes, TakeRoute(n, p) PROVE Net'
  BY <1>6, TakeRouteOK
<1>7. ASSUME NEW n \in Nodes, NEW p \in Nodes, TakeRequest(n, p) PROVE Net'
  BY <1>7, TakeRequestOK
<1>8. ASSUME NEW n \in Nodes, NEW p \in Nodes, TakeEcho(n, p) PROVE Net'
  BY <1>8, TakeEchoOK
<1>9. ASSUME NEW n \in Nodes, Exit(n) PROVE Net'
  BY <1>9, ExitOK
<1>10. CASE Bump
  BY <1>10, BumpOK
<1>11. CASE UNCHANGED vars
  BY <1>11 DEF vars, Net
<1> QED BY SMTT(60), <1>1, <1>2, <1>3, <1>4, <1>5, <1>6, <1>7, <1>8, <1>9, <1>10, <1>11 DEF Next

\* Nobody knows a seqno the origin never had or asks for more than the next one, nothing in
\* flight says so, and no node owes its neighbours anything.
Modesty ==
    /\ issued \in Nat
    /\ \A n \in Nodes : Low(node[n], issued)
    /\ \A c \in Pairs : \A j \in DOMAIN queue[c] : Modest(queue[c][j], issued)
AllQuiet == \A n \in Nodes : Quiet(node[n])
Calm == Modesty /\ AllQuiet

\* Bounds by the newest seqno survive a newer one.
LEMMA LowMonotone ==
    ASSUME NEW r \in NodeStates, NEW i \in Nat, NEW j \in Nat, i <= j, Low(r, i)
    PROVE  Low(r, j)
<1>1. ASSUME r.origin # None PROVE r.origin <= j
  <2>1. r.origin \in Nat /\ r.origin <= i
    BY Zenon, <1>1 DEF NodeStates, Low
  <2> QED BY <2>1
<1>2. ASSUME r.fd # None PROVE r.fd.seqno <= j
  <2>1. r.fd.seqno \in Nat /\ r.fd.seqno <= i
    BY Zenon, <1>2 DEF NodeStates, Low, Distances
  <2> QED BY <2>1
<1>3. ASSUME NEW p \in Nodes, r.rx[p] # None PROVE r.rx[p].advert.seqno <= j
  <2>1. r.rx[p] \in Entries
    BY Zenon, <1>3 DEF NodeStates
  <2>2. r.rx[p].advert.seqno \in Nat /\ r.rx[p].advert.seqno <= i
    BY Zenon, <1>3, <2>1 DEF Low, Entries, Adverts
  <2> QED BY <2>2
<1>4. ASSUME r.pending # None PROVE r.pending.seqno <= j + 1
  <2>1. r.pending.seqno \in Nat /\ r.pending.seqno <= i + 1
    BY Zenon, <1>4 DEF NodeStates, Low, Pendings
  <2> QED BY <2>1
<1> QED BY Zenon, <1>1, <1>2, <1>3, <1>4 DEF Low

\* The same for messages.
LEMMA ModestMonotone ==
    ASSUME NEW m \in Messages, NEW i \in Nat, NEW j \in Nat, i <= j, Modest(m, i)
    PROVE  Modest(m, j)
<1>1. ASSUME IsFinite(m) PROVE m.reach.seqno <= j
  <2>1. m.reach \in Adverts
    BY <1>1 DEF IsFinite, Messages
  <2>2. m.reach.seqno \in Nat /\ m.reach.seqno <= i
    BY Zenon, <1>1, <2>1 DEF Adverts, Modest
  <2> QED BY <2>2
<1>2. ASSUME m.type = "request" PROVE m.seqno <= j + 1
  <2>1. m.seqno \in Nat
    BY <1>2 DEF Messages
  <2>2. m.seqno <= i + 1
    BY Zenon, <1>2 DEF Modest
  <2> QED BY <2>1, <2>2
<1> QED BY Zenon, <1>1, <1>2 DEF Modest

\* An element of a concatenation is an element of one of the parts.
LEMMA Concat ==
    ASSUME NEW q \in Seq(Messages), NEW o \in Seq(Messages)
    PROVE  \A j \in DOMAIN (q \o o) : \/ \E k \in DOMAIN q : (q \o o)[j] = q[k]
                                      \/ \E k \in DOMAIN o : (q \o o)[j] = o[k]
<1> TAKE j \in DOMAIN (q \o o)
<1>1. /\ Len(q) \in Nat /\ Len(o) \in Nat /\ DOMAIN q = 1..Len(q) /\ DOMAIN o = 1..Len(o)
      /\ DOMAIN (q \o o) = 1..(Len(q) + Len(o))
      /\ (q \o o)[j] = IF j <= Len(q) THEN q[j] ELSE o[j - Len(q)]
  OBVIOUS
<1>2. CASE j <= Len(q)
  <2>1. j \in DOMAIN q
    BY <1>1, <1>2
  <2> QED BY Zenon, <1>1, <1>2, <2>1
<1>3. CASE ~(j <= Len(q))
  <2>1. j - Len(q) \in DOMAIN o
    BY <1>1, <1>3
  <2> QED BY Zenon, <1>1, <1>3, <2>1
<1> QED BY Zenon, <1>2, <1>3

\* A handler that ends in update keeps the network calm, if what it did before knows no
\* seqno that is new once the origin's own counts.
LEMMA FlushCalm ==
    ASSUME Counting, Net, Calm, NEW n \in Nodes, NEW r \in NodeStates, Sane(r), Silent(r), NEW q, NEW k,
           Flush(n, Update(r), q, k), q \in [Pairs -> Seq(Messages)],
           \A c \in Pairs : \A j \in DOMAIN q[c] : Modest(q[c][j], issued),
           Low(r, issued')
    PROVE  Calm'
<1>0. /\ issued \in Nat /\ node \in [Nodes -> NodeStates]
      /\ \A m \in Nodes : Low(node[m], issued) /\ Quiet(node[m])
  BY Zenon DEF Calm, Modesty, AllQuiet, Net, NetInv
<1>1. PICK u : u = Update(r)
  BY Zenon
<1>2. u \in NodeStates /\ SameTable(r, u)
  BY Zenon, <1>1, UpdateOK
<1>3. /\ node' = [node EXCEPT ![n] = Muted(u)]
      /\ queue' = [c \in Pairs |-> IF c[1] = n /\ c[2] \in u.peers /\ Up(n, c[2])
                                   THEN q[c] \o u.out[c[2]] ELSE q[c]]
      /\ issued' = IF u.origin # None /\ u.origin > issued THEN u.origin ELSE issued
  BY Zenon, <1>1 DEF Flush, Muted
<1>4. PICK i : i = issued'
  BY Zenon
<1>5. i \in Nat /\ issued <= i
  <2>1. u.origin \in Nat \cup {None}
    BY Zenon, <1>2 DEF NodeStates
  <2> QED BY <1>0, <1>3, <1>4, <2>1
<1>6. /\ Low(u, i)
      /\ \A p \in Nodes : \A j \in DOMAIN u.out[p] : Modest(u.out[p][j], i)
  BY Zenon, <1>1, <1>4, <1>5, UpdateLow
<1>7. Quiet(Muted(u))
  BY Zenon, <1>1, UpdateQuiet
<1>8. Low(Muted(u), i)
  <2>1. /\ Muted(u).origin = u.origin /\ Muted(u).fd = u.fd /\ Muted(u).rx = u.rx
        /\ Muted(u).pending = u.pending
    BY Zenon, <1>2 DEF Muted, NodeStates
  <2> QED BY Zenon, <1>6, <2>1 DEF Low
<1>9. ASSUME NEW m \in Nodes PROVE Low(node'[m], i) /\ Quiet(node'[m])
  <2>1. CASE m = n
    <3>1. node'[m] = Muted(u)
      BY Zenon, <1>0, <1>3, <2>1
    <3> QED BY Zenon, <1>7, <1>8, <3>1
  <2>2. CASE m # n
    <3>1. node'[m] = node[m] /\ node[m] \in NodeStates
      BY Zenon, <1>0, <1>3, <2>2
    <3>2. Low(node[m], i)
      BY Zenon, <1>0, <1>5, <3>1, LowMonotone
    <3> QED BY Zenon, <1>0, <3>1, <3>2
  <2> QED BY Zenon, <2>1, <2>2
<1>10. ASSUME NEW c \in Pairs, NEW j \in DOMAIN queue'[c] PROVE Modest(queue'[c][j], i)
  <2>0. q[c] \in Seq(Messages) /\ c[2] \in Nodes
    BY DEF Pairs
  <2>1. ASSUME NEW x \in DOMAIN q[c] PROVE Modest(q[c][x], i)
    <3>1. q[c][x] \in Messages
      BY <2>0
    <3>2. Modest(q[c][x], issued)
      BY Zenon
    <3> QED BY Zenon, <1>0, <1>5, <3>1, <3>2, ModestMonotone
  <2>2. CASE queue'[c] = q[c]
    BY Zenon, <1>10, <2>1, <2>2
  <2>3. CASE queue'[c] = q[c] \o u.out[c[2]]
    <3>1. PICK o \in Seq(Messages) : o = u.out[c[2]]
      BY Zenon, <1>2, <2>0 DEF NodeStates
    <3>2. PICK f \in Seq(Messages) : f = q[c]
      BY Zenon, <2>0
    <3>3. queue'[c] = f \o o
      BY Zenon, <2>3, <3>1, <3>2
    <3>4. (\E x \in DOMAIN f : queue'[c][j] = f[x]) \/ (\E x \in DOMAIN o : queue'[c][j] = o[x])
      <4>1. j \in DOMAIN (f \o o)
        BY Zenon, <1>10, <3>3
      <4>2. (\E x \in DOMAIN f : (f \o o)[j] = f[x]) \/ (\E x \in DOMAIN o : (f \o o)[j] = o[x])
        BY Zenon, <4>1, Concat
      <4> QED BY Zenon, <3>3, <4>2
    <3>5. \A x \in DOMAIN f : Modest(f[x], i)
      BY Zenon, <2>1, <3>2
    <3>6. \A x \in DOMAIN o : Modest(o[x], i)
      BY Zenon, <1>6, <2>0, <3>1
    <3> QED BY Zenon, <3>4, <3>5, <3>6
  <2>4. queue'[c] = q[c] \/ queue'[c] = q[c] \o u.out[c[2]]
    BY Zenon, <1>3
  <2> QED BY Zenon, <2>2, <2>3, <2>4
<1>11. Modesty'
  <2>1. \A m \in Nodes : Low(node'[m], issued')
    BY Zenon, <1>4, <1>9
  <2>2. \A c \in Pairs : \A j \in DOMAIN queue'[c] : Modest(queue'[c][j], issued')
    BY Zenon, <1>4, <1>10
  <2> QED BY Zenon, <1>4, <1>5, <2>1, <2>2 DEF Modesty
<1> QED BY Zenon, <1>9, <1>11 DEF Calm, AllQuiet

\* So does a handler that returns early.
LEMMA PlainCalm ==
    ASSUME Counting, Net, Calm, NEW n \in Nodes, NEW r \in NodeStates, Sane(r), Silent(r), Quiet(r),
           Low(r, issued), NEW q, NEW k, Flush(n, r, q, k), q \in [Pairs -> Seq(Messages)],
           \A c \in Pairs : \A j \in DOMAIN q[c] : Modest(q[c][j], issued)
    PROVE  Calm'
<1>0. /\ issued \in Nat /\ node \in [Nodes -> NodeStates]
      /\ \A m \in Nodes : Low(node[m], issued) /\ Quiet(node[m])
  BY Zenon DEF Calm, Modesty, AllQuiet, Net, NetInv
<1>1. Update(r) = r
  BY Zenon, QuietUpdate
<1>2. issued' = issued
  <2>1. issued' = IF r.origin # None /\ r.origin > issued THEN r.origin ELSE issued
    BY Zenon DEF Flush
  <2>2. r.origin # None => r.origin <= issued
    BY Zenon DEF Low
  <2>3. r.origin \in Nat \cup {None}
    BY Zenon DEF NodeStates
  <2> QED BY <1>0, <2>1, <2>2, <2>3
<1> QED BY Zenon, <1>1, <1>2, FlushCalm

\* Losing what is in flight on some sessions brings in no seqno.
LEMMA LostModest ==
    ASSUME queue \in [Pairs -> Seq(Messages)], NEW S,
           \A c \in Pairs : \A j \in DOMAIN queue[c] : Modest(queue[c][j], issued)
    PROVE  /\ Lost(S) \in [Pairs -> Seq(Messages)]
           /\ \A c \in Pairs : \A j \in DOMAIN Lost(S)[c] : Modest(Lost(S)[c][j], issued)
<1>1. <<>> \in Seq(Messages) /\ DOMAIN <<>> = {}
  OBVIOUS
<1>2. \A c \in Pairs : Lost(S)[c] = <<>> \/ Lost(S)[c] = queue[c]
  BY Zenon DEF Lost
<1>3. Lost(S) \in [Pairs -> Seq(Messages)]
  BY Zenon, <1>1 DEF Lost
<1>4. ASSUME NEW c \in Pairs, NEW j \in DOMAIN Lost(S)[c] PROVE Modest(Lost(S)[c][j], issued)
  <2>1. CASE Lost(S)[c] = <<>>
    BY Zenon, <1>1, <1>4, <2>1
  <2>2. CASE Lost(S)[c] = queue[c]
    BY Zenon, <1>4, <2>2
  <2> QED BY Zenon, <1>2, <2>1, <2>2
<1> QED BY Zenon, <1>3, <1>4

\* What the handlers start from.
LEMMA CalmNode ==
    ASSUME Net, Calm, NEW n \in Nodes
    PROVE  /\ node[n] \in NodeStates /\ Sane(node[n]) /\ Silent(node[n]) /\ Quiet(node[n])
           /\ Low(node[n], issued) /\ issued \in Nat
           /\ queue \in [Pairs -> Seq(Messages)]
           /\ \A c \in Pairs : \A j \in DOMAIN queue[c] : Modest(queue[c][j], issued)
  BY Zenon DEF Net, NetInv, Calm, Modesty, AllQuiet

\* The origin's newest seqno only grows.
LEMMA FlushIssued ==
    ASSUME Counting, NEW n, NEW r \in NodeStates, Sane(r), Silent(r), NEW q, NEW k,
           Flush(n, Update(r), q, k), issued \in Nat
    PROVE  /\ issued' \in Nat /\ issued <= issued'
           /\ r.origin # None => r.origin <= issued'
<1>1. Update(r).origin = r.origin
  BY Zenon, UpdateOK DEF SameTable
<1>2. r.origin \in Nat \cup {None}
  BY Zenon DEF NodeStates
<1>3. issued' = IF r.origin # None /\ r.origin > issued THEN r.origin ELSE issued
  BY Zenon, <1>1 DEF Flush
<1> QED BY <1>2, <1>3

\* A handler that ends in update and brings in no seqno keeps the network calm.
LEMMA FlushSame ==
    ASSUME Counting, Net, Calm, NEW n \in Nodes, NEW v \in NodeStates, Sane(v), Silent(v), NEW q, NEW k,
           Flush(n, Update(v), q, k), q \in [Pairs -> Seq(Messages)],
           \A c \in Pairs : \A j \in DOMAIN q[c] : Modest(q[c][j], issued),
           Low(v, issued)
    PROVE  Calm'
<1>1. issued \in Nat
  BY Zenon, CalmNode
<1>2. issued' \in Nat /\ issued <= issued'
  BY Zenon, <1>1, FlushIssued
<1>3. Low(v, issued')
  BY Zenon, <1>1, <1>2, LowMonotone
<1> QED BY Zenon, <1>3, FlushCalm

\* peer_interest keeps the network calm.
LEMMA OpenStreamCalm ==
    ASSUME Counting, Net, Calm, NEW n \in Nodes, NEW p \in Nodes, OpenStream(n, p) PROVE Calm'
<1>1. PICK r : r = node[n]
  BY Zenon
<1>2. /\ r \in NodeStates /\ Sane(r) /\ Silent(r) /\ Low(r, issued)
      /\ queue \in [Pairs -> Seq(Messages)]
      /\ \A c \in Pairs : \A j \in DOMAIN queue[c] : Modest(queue[c][j], issued)
  BY Zenon, <1>1, CalmNode
<1>3. PICK v : v = [r EXCEPT !.streams = @ \cup {p}]
  BY Zenon
<1>4. p \in r.peers /\ Flush(n, Update(v), queue, acks)
  BY Zenon, <1>1, <1>3 DEF OpenStream, PeerInterest, Up
<1>5. /\ v \in NodeStates /\ v.link = r.link /\ v.peers = r.peers /\ v.streams = r.streams \cup {p}
      /\ v.origin = r.origin /\ v.fd = r.fd /\ v.rx = r.rx /\ v.pending = r.pending
      /\ v.sent = r.sent /\ v.unacked = r.unacked /\ v.out = r.out
  <2>1. v \in NodeStates
    BY Zenon, <1>2, <1>3 DEF NodeStates
  <2>2. /\ v.link = r.link /\ v.peers = r.peers /\ v.streams = r.streams \cup {p}
        /\ v.origin = r.origin /\ v.fd = r.fd /\ v.rx = r.rx /\ v.pending = r.pending
        /\ v.sent = r.sent /\ v.unacked = r.unacked /\ v.out = r.out
    BY <1>2, <1>3 DEF NodeStates
  <2> QED BY Zenon, <2>1, <2>2
<1>6. Sane(v) /\ Silent(v) /\ Low(v, issued)
  BY Zenon, <1>2, <1>4, <1>5 DEF Sane, Silent, Low
<1> QED BY Zenon, <1>2, <1>4, <1>5, <1>6, FlushSame

\* goaway keeps the network calm: without a route from the peer there is nothing to select.
LEMMA DrainCalm ==
    ASSUME Counting, Net, Calm, NEW n \in Nodes, NEW p \in Nodes, Drain(n, p) PROVE Calm'
<1>1. PICK r : r = node[n]
  BY Zenon
<1>2. /\ r \in NodeStates /\ Sane(r) /\ Silent(r) /\ Low(r, issued) /\ Quiet(r)
      /\ queue \in [Pairs -> Seq(Messages)]
      /\ \A c \in Pairs : \A j \in DOMAIN queue[c] : Modest(queue[c][j], issued)
  BY Zenon, <1>1, CalmNode
<1>3. PICK v : v = [r EXCEPT !.draining = @ \cup {p}]
  BY Zenon
<1>4. Flush(n, IF r.rx[p] = None THEN v ELSE Update(v), queue, acks)
  BY Zenon, <1>1, <1>3 DEF Drain, Goaway
<1>5. /\ v \in NodeStates /\ v.link = r.link /\ v.peers = r.peers /\ v.streams = r.streams
      /\ v.origin = r.origin /\ v.fd = r.fd /\ v.rx = r.rx /\ v.pending = r.pending
      /\ v.sent = r.sent /\ v.unacked = r.unacked /\ v.out = r.out
      /\ v.draining = r.draining \cup {p}
  <2>1. v \in NodeStates
    BY Zenon, <1>2, <1>3 DEF NodeStates
  <2>2. /\ v.link = r.link /\ v.peers = r.peers /\ v.streams = r.streams
        /\ v.origin = r.origin /\ v.fd = r.fd /\ v.rx = r.rx /\ v.pending = r.pending
        /\ v.sent = r.sent /\ v.unacked = r.unacked /\ v.out = r.out
        /\ v.draining = r.draining \cup {p}
    BY <1>2, <1>3 DEF NodeStates
  <2> QED BY Zenon, <2>1, <2>2
<1>6. Sane(v) /\ Silent(v) /\ Low(v, issued)
  <2>1. Sane(v)
    BY Zenon, <1>2, <1>5 DEF Sane
  <2>2. Silent(v)
    BY Zenon, <1>2, <1>5 DEF Silent
  <2>3. Low(v, issued)
    BY Zenon, <1>2, <1>5 DEF Low
  <2> QED BY Zenon, <2>1, <2>2, <2>3
<1>7. CASE r.rx[p] # None
  BY Zenon, <1>2, <1>4, <1>5, <1>6, <1>7, FlushSame
<1>8. CASE r.rx[p] = None
  <2>1. SameView(r, v)
    BY Zenon, <1>5, <1>8 DEF SameView
  <2>2. Quiet(v)
    BY Zenon, <1>2, <1>5, <1>6, <2>1, QuietSame
  <2> QED BY Zenon, <1>2, <1>4, <1>5, <1>6, <1>8, <2>2, PlainCalm
<1> QED BY Zenon, <1>7, <1>8

\* disconnect keeps the network calm: without a part of the peer in it there is nothing to
\* update.
LEMMA DropCalm ==
    ASSUME Counting, Net, Calm, NEW n \in Nodes, NEW p \in Nodes, Drop(n, p) PROVE Calm'
<1>1. PICK r : r = node[n]
  BY Zenon
<1>2. /\ r \in NodeStates /\ Sane(r) /\ Silent(r) /\ Low(r, issued)
      /\ queue \in [Pairs -> Seq(Messages)]
      /\ \A c \in Pairs : \A j \in DOMAIN queue[c] : Modest(queue[c][j], issued)
  BY Zenon, <1>1, CalmNode
<1>3. PICK w : w = IF r.pending = None THEN None ELSE [r.pending EXCEPT !.from = @ \ {p}]
  BY Zenon
<1>4. PICK rx, sn, un : /\ rx = [r.rx EXCEPT ![p] = None] /\ sn = [r.sent EXCEPT ![p] = None]
                        /\ un = [r.unacked EXCEPT ![p] = 0]
  BY Zenon
<1>5. PICK v : v = [r EXCEPT !.peers = @ \ {p}, !.streams = @ \ {p}, !.draining = @ \ {p},
                             !.rx = rx, !.sent = sn, !.unacked = un, !.pending = w]
  BY Zenon
<1>6. Flush(n, IF Touched(r, p) THEN Update(v) ELSE v, Lost(Between(n, p)), Unechoed(Between(n, p)))
  <2>1. CASE Touched(r, p)
    <3>1. Disconnected(r, p) = Update(v)
      BY ZenonT(60), <1>3, <1>4, <1>5, <2>1 DEF Disconnected
    <3> QED BY Zenon, <1>1, <2>1, <3>1 DEF Drop
  <2>2. CASE ~Touched(r, p)
    <3>1. Disconnected(r, p) = v
      BY ZenonT(60), <1>3, <1>4, <1>5, <2>2 DEF Disconnected
    <3> QED BY Zenon, <1>1, <2>2, <3>1 DEF Drop
  <2> QED BY Zenon, <2>1, <2>2
<1>7. w \in Pendings \cup {None} /\ (w # None => r.pending # None /\ w.seqno = r.pending.seqno)
  <2>1. CASE r.pending = None
    BY Zenon, <1>3, <2>1
  <2>2. CASE r.pending # None
    <3>1. r.pending \in Pendings /\ w = [r.pending EXCEPT !.from = @ \ {p}]
      BY Zenon, <1>2, <1>3, <2>2 DEF NodeStates
    <3>2. w \in Pendings /\ w.seqno = r.pending.seqno
      BY Zenon, <3>1 DEF Pendings
    <3> QED BY Zenon, <2>2, <3>2
  <2> QED BY Zenon, <2>1, <2>2
<1>8. /\ rx \in [Nodes -> Entries \cup {None}] /\ sn \in [Nodes -> Adverts \cup {Held, None}]
      /\ un \in [Nodes -> Nat] /\ rx[p] = None /\ sn[p] = None /\ un[p] = 0
      /\ \A o \in Nodes : o # p => rx[o] = r.rx[o] /\ sn[o] = r.sent[o] /\ un[o] = r.unacked[o]
  BY Zenon, <1>2, <1>4 DEF NodeStates
<1>9. /\ v \in NodeStates /\ v.link = r.link /\ v.peers = r.peers \ {p} /\ v.streams = r.streams \ {p}
      /\ v.origin = r.origin /\ v.fd = r.fd /\ v.rx = rx /\ v.pending = w
      /\ v.sent = sn /\ v.unacked = un /\ v.out = r.out
  BY Zenon, <1>2, <1>5, <1>7, <1>8 DEF NodeStates
<1>10. Sane(v) /\ Silent(v)
  <2>1. Silent(v)
    BY Zenon, <1>2, <1>9 DEF Silent
  <2>2. v.streams \subseteq v.peers /\ \A o \in Nodes : o \in v.peers => v.link[o] # None
    BY Zenon, <1>2, <1>9 DEF Sane
  <2>3. \A o \in Nodes : o \notin v.peers => rx[o] = None /\ sn[o] = None /\ un[o] = 0
    BY ZenonT(60), <1>2, <1>8, <1>9 DEF Sane
  <2> QED BY Zenon, <1>9, <2>1, <2>2, <2>3 DEF Sane
<1>11. Low(v, issued)
  <2>1. \A o \in Nodes : v.rx[o] = r.rx[o] \/ v.rx[o] = None
    BY Zenon, <1>8, <1>9
  <2>2. v.pending = None \/ (r.pending # None /\ v.pending.seqno = r.pending.seqno)
    BY Zenon, <1>7, <1>9
  <2>3. v.origin = r.origin /\ v.fd = r.fd
    BY Zenon, <1>9
  <2> QED BY Zenon, <1>2, <2>1, <2>2, <2>3 DEF Low
<1>12. /\ Lost(Between(n, p)) \in [Pairs -> Seq(Messages)]
       /\ \A c \in Pairs : \A j \in DOMAIN Lost(Between(n, p))[c] : Modest(Lost(Between(n, p))[c][j], issued)
  BY Zenon, <1>2, LostModest
<1>13. CASE Touched(r, p)
  BY Zenon, <1>6, <1>9, <1>10, <1>11, <1>12, <1>13, FlushSame
<1>14. CASE ~Touched(r, p)
  <2>1. rx = r.rx /\ sn = r.sent /\ un = r.unacked
    BY Zenon, <1>2, <1>4, <1>14 DEF Touched, NodeStates
  <2>2. w = r.pending
    <3>1. CASE r.pending = None
      BY Zenon, <1>3, <3>1
    <3>2. CASE r.pending # None
      <4>1. r.pending \in Pendings /\ p \notin r.pending.from
        BY Zenon, <1>2, <1>14, <3>2 DEF Touched, NodeStates
      <4>2. r.pending.from \ {p} = r.pending.from
        BY Zenon, <4>1
      <4>3. w = [r.pending EXCEPT !.from = r.pending.from]
        BY Zenon, <1>3, <3>2, <4>2
      <4> QED BY Zenon, <4>1, <4>3 DEF Pendings
    <3> QED BY Zenon, <3>1, <3>2
  <2>3. v.draining = r.draining \ {p}
    BY Zenon, <1>2, <1>5 DEF NodeStates
  <2>4. SameView(r, v)
    BY Zenon, <1>9, <1>14, <2>1, <2>3 DEF SameView, Touched
  <2>5. v.streams \subseteq r.streams /\ Quiet(r)
    BY Zenon, <1>1, <1>9, CalmNode
  <2>6. Quiet(v)
    BY Zenon, <1>2, <1>9, <1>10, <2>1, <2>2, <2>4, <2>5, QuietSame
  <2> QED BY Zenon, <1>6, <1>9, <1>10, <1>11, <1>12, <1>14, <2>6, PlainCalm
<1> QED BY Zenon, <1>13, <1>14

\* Taking the first message of a session brings in no seqno, and it has a modest one.
LEMMA TakenModest ==
    ASSUME queue \in [Pairs -> Seq(Messages)], NEW x \in Pairs, queue[x] # <<>>,
           \A c \in Pairs : \A j \in DOMAIN queue[c] : Modest(queue[c][j], issued)
    PROVE  LET q == [queue EXCEPT ![x] = Tail(@)] IN
           /\ q \in [Pairs -> Seq(Messages)]
           /\ \A c \in Pairs : \A j \in DOMAIN q[c] : Modest(q[c][j], issued)
           /\ Head(queue[x]) \in Messages /\ Modest(Head(queue[x]), issued)
<1>1. PICK f \in Seq(Messages) : f = queue[x]
  BY Zenon
<1>2. /\ Tail(f) \in Seq(Messages) /\ Head(f) = f[1] /\ Head(f) \in Messages
      /\ 1 \in DOMAIN f
      /\ \A i \in DOMAIN Tail(f) : i + 1 \in DOMAIN f /\ Tail(f)[i] = f[i + 1]
  <2>1. f # <<>>
    BY Zenon, <1>1
  <2>2. /\ Tail(f) \in Seq(Messages) /\ Len(f) \in Nat /\ Len(f) > 0
        /\ DOMAIN Tail(f) = 1..(Len(f) - 1) /\ DOMAIN f = 1..Len(f)
        /\ \A i \in DOMAIN Tail(f) : Tail(f)[i] = f[i + 1]
        /\ Head(f) = f[1] /\ Head(f) \in Messages
    BY Zenon, <2>1, FrontTaken
  <2>3. 1 \in DOMAIN f
    BY <2>2
  <2>4. \A i \in DOMAIN Tail(f) : i + 1 \in DOMAIN f
    BY <2>2
  <2> QED BY Zenon, <2>2, <2>3, <2>4
<1>3. \A j \in DOMAIN f : Modest(f[j], issued)
  BY Zenon, <1>1
<1>4. \A j \in DOMAIN Tail(f) : Modest(Tail(f)[j], issued)
  BY Zenon, <1>2, <1>3
<1>5. PICK q : q = [queue EXCEPT ![x] = Tail(@)]
  BY Zenon
<1>6. q \in [Pairs -> Seq(Messages)] /\ q[x] = Tail(f) /\ \A c \in Pairs : c # x => q[c] = queue[c]
  BY Zenon, <1>1, <1>2, <1>5
<1>7. \A c \in Pairs : \A j \in DOMAIN q[c] : Modest(q[c][j], issued)
  <2>1. ASSUME NEW c \in Pairs, c # x PROVE \A j \in DOMAIN q[c] : Modest(q[c][j], issued)
    BY Zenon, <1>6, <2>1
  <2> QED BY Zenon, <1>4, <1>6, <2>1
<1> QED BY Zenon, <1>1, <1>2, <1>3, <1>5, <1>6, <1>7

\* A new seqno at the origin, or none: the network stays calm.
LEMMA OriginCalm ==
    ASSUME Counting, Net, Calm, NEW n \in Nodes, NEW o \in Nat \cup {None}, NEW q, NEW k,
           Flush(n, Update([node[n] EXCEPT !.origin = o]), q, k),
           q \in [Pairs -> Seq(Messages)],
           \A c \in Pairs : \A j \in DOMAIN q[c] : Modest(q[c][j], issued)
    PROVE  Calm'
<1>1. PICK r : r = node[n]
  BY Zenon
<1>2. r \in NodeStates /\ Sane(r) /\ Silent(r) /\ Low(r, issued) /\ issued \in Nat
  BY Zenon, <1>1, CalmNode
<1>3. PICK v : v = [r EXCEPT !.origin = o]
  BY Zenon
<1>4. v \in NodeStates
  BY Zenon, <1>2, <1>3 DEF NodeStates
<1>5. /\ v.link = r.link /\ v.peers = r.peers /\ v.streams = r.streams
      /\ v.origin = o /\ v.fd = r.fd /\ v.rx = r.rx /\ v.pending = r.pending
      /\ v.sent = r.sent /\ v.unacked = r.unacked /\ v.out = r.out
  BY <1>2, <1>3 DEF NodeStates
<1>6. Sane(v) /\ Silent(v)
  BY Zenon, <1>2, <1>5 DEF Sane, Silent
<1>7. Flush(n, Update(v), q, k)
  BY Zenon, <1>1, <1>3
<1>8. /\ issued' \in Nat /\ issued <= issued'
      /\ v.origin # None => v.origin <= issued'
  BY Zenon, <1>2, <1>4, <1>6, <1>7, FlushIssued
<1>9. Low(r, issued')
  BY Zenon, <1>2, <1>8, LowMonotone
<1>10. Low(v, issued')
  BY Zenon, <1>5, <1>8, <1>9 DEF Low
<1> QED BY Zenon, <1>4, <1>6, <1>7, <1>10, FlushCalm

\* bump keeps the network calm: the seqno it announces is the newest issued.
LEMMA BumpCalm ==
    ASSUME Counting, Net, Calm, Bump PROVE Calm'
<1>0. Origin \in Nodes
  BY Zenon, MeshAssumption
<1>1. PICK r : r = node[Origin]
  BY Zenon
<1>2. /\ r \in NodeStates /\ queue \in [Pairs -> Seq(Messages)]
      /\ \A c \in Pairs : \A j \in DOMAIN queue[c] : Modest(queue[c][j], issued)
  BY Zenon, <1>0, <1>1, CalmNode
<1>3. r.origin \in Nat
  BY Zenon, <1>1, <1>2 DEF Bump, NodeStates
<1>4. r.origin + 1 \in Nat
  BY <1>3
<1>5. \/ Bumped(r) = Update([r EXCEPT !.origin = None])
      \/ Bumped(r) = Update([r EXCEPT !.origin = r.origin + 1])
  BY Zenon DEF Bumped, Rotated
<1>6. PICK o \in Nat \cup {None} : Bumped(r) = Update([r EXCEPT !.origin = o])
  BY Zenon, <1>4, <1>5
<1>7. Flush(Origin, Update([node[Origin] EXCEPT !.origin = o]), queue, acks)
  BY Zenon, <1>1, <1>6 DEF Bump
<1> QED BY Zenon, <1>0, <1>2, <1>7, OriginCalm

\* Nor does taking a message from anywhere in the session bring in a seqno.
LEMMA RequestModest ==
    ASSUME queue \in [Pairs -> Seq(Messages)], NEW x \in Pairs, NEW i \in DOMAIN queue[x],
           \A c \in Pairs : \A j \in DOMAIN queue[c] : Modest(queue[c][j], issued)
    PROVE  LET q == [queue EXCEPT ![x] = Without(queue[x], i)] IN
           /\ q \in [Pairs -> Seq(Messages)]
           /\ \A c \in Pairs : \A j \in DOMAIN q[c] : Modest(q[c][j], issued)
           /\ queue[x][i] \in Messages /\ Modest(queue[x][i], issued)
<1>1. PICK f \in Seq(Messages) : f = queue[x]
  BY Zenon
<1>2. PICK g : g = Without(f, i)
  BY Zenon
<1>3. /\ g \in Seq(Messages) /\ Len(f) \in Nat /\ DOMAIN g = 1..(Len(f) - 1) /\ DOMAIN f = 1..Len(f)
      /\ \A j \in DOMAIN g : g[j] = IF j < i THEN f[j] ELSE f[j + 1]
      /\ f[i] \in Messages
  BY Zenon, <1>1, <1>2, OneTaken
<1>4. \A j \in DOMAIN g : \E h \in DOMAIN f : g[j] = f[h]
  <2>1. ASSUME NEW j \in DOMAIN g PROVE \E h \in DOMAIN f : g[j] = f[h]
    BY <1>3
  <2> QED BY Zenon, <2>1
<1>5. \A j \in DOMAIN g : Modest(g[j], issued)
  BY Zenon, <1>1, <1>4
<1>6. PICK q : q = [queue EXCEPT ![x] = g]
  BY Zenon
<1>7. q \in [Pairs -> Seq(Messages)] /\ \A c \in Pairs : q[c] = IF c = x THEN g ELSE queue[c]
  BY Zenon, <1>3, <1>6
<1>8. \A c \in Pairs : \A j \in DOMAIN q[c] : Modest(q[c][j], issued)
  <2> TAKE c \in Pairs
  <2>1. CASE c = x
    BY Zenon, <1>5, <1>7, <2>1
  <2>2. CASE c # x
    BY Zenon, <1>7, <2>2
  <2> QED BY Zenon, <2>1, <2>2
<1> QED BY Zenon, <1>1, <1>2, <1>3, <1>6, <1>7, <1>8

\* Taking a request keeps the network calm: at most the next seqno is asked for, and the origin
\* then has it.
LEMMA TakeRequestCalm ==
    ASSUME Counting, Net, Calm, NEW n \in Nodes, NEW p \in Nodes, TakeRequest(n, p) PROVE Calm'
<1>1. PICK r : r = node[n]
  BY Zenon
<1>2. /\ r \in NodeStates /\ Sane(r) /\ Silent(r) /\ Low(r, issued) /\ Quiet(r) /\ issued \in Nat
      /\ queue \in [Pairs -> Seq(Messages)]
      /\ \A c \in Pairs : \A j \in DOMAIN queue[c] : Modest(queue[c][j], issued)
  BY Zenon, <1>1, CalmNode
<1>3. PICK x : x = <<p, n>>
  BY Zenon
<1>i. PICK i \in DOMAIN queue[x] :
          /\ queue[x][i].type = "request"
          /\ Flush(n, Requested(r, p, queue[x][i].seqno), [queue EXCEPT ![x] = Without(queue[x], i)], acks)
  BY Zenon, <1>1, <1>3 DEF TakeRequest
<1>4. PICK q : q = [queue EXCEPT ![x] = Without(queue[x], i)]
  BY Zenon
<1>5. PICK m : m = queue[x][i]
  BY Zenon
<1>6. x \in Pairs /\ m.type = "request" /\ Flush(n, Requested(r, p, m.seqno), q, acks)
  BY Zenon, <1>3, <1>4, <1>5, <1>i DEF Pairs
<1>7. /\ q \in [Pairs -> Seq(Messages)]
      /\ \A c \in Pairs : \A j \in DOMAIN q[c] : Modest(q[c][j], issued)
      /\ m \in Messages /\ Modest(m, issued)
  BY Zenon, <1>2, <1>4, <1>5, <1>6, RequestModest
<1>8. m.seqno \in Nat
  BY <1>6, <1>7 DEF Messages
<1>9. PICK s \in Nat : s = m.seqno /\ s <= issued + 1
  BY Zenon, <1>6, <1>7, <1>8 DEF Modest
<1>10. CASE r.origin # None
  <2>1. r.origin \in Nat
    BY Zenon, <1>2, <1>10 DEF NodeStates
  <2>2. \/ Requested(r, p, s) = Update([r EXCEPT !.origin = None])
        \/ Requested(r, p, s) = Update([r EXCEPT !.origin = s])
        \/ Requested(r, p, s) = Update([r EXCEPT !.origin = r.origin])
    BY Zenon, <1>10 DEF Requested, Rotated
  <2>3. PICK o \in Nat \cup {None} : Requested(r, p, s) = Update([r EXCEPT !.origin = o])
    BY Zenon, <2>1, <2>2
  <2>4. Flush(n, Update([node[n] EXCEPT !.origin = o]), q, acks)
    BY Zenon, <1>1, <1>6, <1>9, <2>3
  <2> QED BY Zenon, <1>7, <2>4, OriginCalm
<1>11. CASE Requested(r, p, s) = r
  <2>1. Flush(n, r, q, acks)
    BY Zenon, <1>6, <1>9, <1>11
  <2> QED BY Zenon, <1>2, <1>7, <2>1, PlainCalm
<1>12. CASE r.origin = None /\ Requested(r, p, s) # r
  <2>1. PICK w : w = Wanting(r.pending, s)
    BY Zenon
  <2>2. PICK y : y = [w EXCEPT !.from = @ \cup {p}]
    BY Zenon
  <2>3. PICK v : v = [r EXCEPT !.pending = y]
    BY Zenon
  <2>4. Requested(r, p, s) = Update(v)
    BY Zenon, <1>12, <2>1, <2>2, <2>3 DEF Requested
  <2>5. r.pending \in Pendings \cup {None} /\ (r.pending # None => r.pending.seqno <= issued + 1)
    BY Zenon, <1>2 DEF NodeStates, Low
  <2>6. w \in Pendings /\ w.seqno <= issued + 1
    BY Zenon, <1>2, <1>9, <2>1, <2>5, WantingType, LowWanting
  <2>7. y \in Pendings /\ y.seqno = w.seqno
    BY Zenon, <2>2, <2>6 DEF Pendings
  <2>8. v \in NodeStates
    BY Zenon, <1>2, <2>3, <2>7 DEF NodeStates
  <2>9. /\ v.link = r.link /\ v.peers = r.peers /\ v.streams = r.streams
        /\ v.origin = r.origin /\ v.fd = r.fd /\ v.rx = r.rx /\ v.pending = y
        /\ v.sent = r.sent /\ v.unacked = r.unacked /\ v.out = r.out
    BY <1>2, <2>3 DEF NodeStates
  <2>10. Sane(v) /\ Silent(v)
    BY Zenon, <1>2, <2>9 DEF Sane, Silent
  <2>11. Low(v, issued)
    BY Zenon, <1>2, <2>6, <2>7, <2>9 DEF Low
  <2>12. Flush(n, Update(v), q, acks)
    BY Zenon, <1>6, <1>9, <2>4
  <2> QED BY Zenon, <1>7, <2>8, <2>10, <2>11, <2>12, FlushSame
<1> QED BY Zenon, <1>10, <1>11, <1>12

\* Applying a route that is not new brings in no seqno.
LEMMA AppliedLow ==
    ASSUME NEW i \in Nat, NEW e \in Entries \cup {None}, e # None => e.advert.seqno <= i,
           NEW m \in Messages, m.type = "route", Modest(m, i)
    PROVE  LET a == Applied(e, m.reach) IN a \in Entries \cup {None} /\ (a # None => a.advert.seqno <= i)
<1>1. PICK x : x = m.reach
  BY Zenon
<1>2. x \in Adverts \cup {Held, None}
  BY <1>1 DEF Messages
<1>3. CASE x = None
  BY Zenon, <1>1, <1>3 DEF Applied
<1>4. CASE x # None /\ x # Held
  <2>1. x \in Adverts /\ x.seqno <= i
    BY Zenon, <1>1, <1>2, <1>4 DEF IsFinite, Modest
  <2>2. Applied(e, x) = [advert |-> x, held |-> FALSE]
    BY Zenon, <1>4 DEF Applied
  <2>3. [advert |-> x, held |-> FALSE] \in Entries /\ [advert |-> x, held |-> FALSE].advert = x
    BY <2>1 DEF Entries
  <2> QED BY Zenon, <1>1, <2>1, <2>2, <2>3
<1>5. CASE x = Held /\ x # None
  <2>1. CASE e = None
    BY Zenon, <1>1, <1>5, <2>1 DEF Applied
  <2>2. CASE e # None
    <3>1. e \in Entries
      BY Zenon, <2>2
    <3>2. Applied(e, x) = [e EXCEPT !.held = TRUE]
      BY Zenon, <1>5, <2>2 DEF Applied
    <3>3. [e EXCEPT !.held = TRUE] \in Entries /\ [e EXCEPT !.held = TRUE].advert = e.advert
      BY Zenon, <3>1 DEF Entries
    <3> QED BY Zenon, <1>1, <2>2, <3>2, <3>3
  <2> QED BY Zenon, <2>1, <2>2
<1> QED BY Zenon, <1>3, <1>4, <1>5

\* Taking a ROUTE keeps the network calm.
LEMMA TakeRouteCalm ==
    ASSUME Counting, Net, Calm, NEW n \in Nodes, NEW p \in Nodes, TakeRoute(n, p) PROVE Calm'
<1>1. PICK r : r = node[n]
  BY Zenon
<1>2. /\ r \in NodeStates /\ Sane(r) /\ Silent(r) /\ Low(r, issued) /\ issued \in Nat
      /\ queue \in [Pairs -> Seq(Messages)]
      /\ \A c \in Pairs : \A j \in DOMAIN queue[c] : Modest(queue[c][j], issued)
  BY Zenon, <1>1, CalmNode
<1>3. PICK x : x = <<p, n>>
  BY Zenon
<1>4. PICK q : q = [queue EXCEPT ![x] = Tail(@)]
  BY Zenon
<1>5. PICK m : m = Head(queue[x])
  BY Zenon
<1>6. PICK rx : rx = [r.rx EXCEPT ![p] = Applied(@, m.reach)]
  BY Zenon
<1>7. PICK v : v = [r EXCEPT !.rx = rx]
  BY Zenon
<1>8. PICK k : k = IF m.reach = None THEN [acks EXCEPT ![<<n, p>>] = @ + 1] ELSE acks
  BY Zenon
<1>9. x \in Pairs /\ queue[x] # <<>> /\ m.type = "route"
  BY Zenon, <1>3, <1>5 DEF TakeRoute, Pairs
<1>10. Flush(n, Routed(r, p, m.reach), q, k)
  BY Zenon, <1>1, <1>3, <1>4, <1>5, <1>8 DEF TakeRoute
<1>11. Flush(n, Update(v), q, k)
  <2>1. v = [r EXCEPT !.rx[p] = Applied(@, m.reach)]
    BY <1>6, <1>7
  <2> QED BY Zenon, <1>10, <2>1 DEF Routed
<1>12. /\ q \in [Pairs -> Seq(Messages)]
       /\ \A c \in Pairs : \A j \in DOMAIN q[c] : Modest(q[c][j], issued)
       /\ m \in Messages /\ Modest(m, issued)
  BY Zenon, <1>2, <1>4, <1>5, <1>9, TakenModest
<1>13. p \in r.peers
  <2>1. IF UpIn(node, p, n) THEN TRUE ELSE queue[<<p, n>>] = <<>>
    BY Zenon DEF Net, NetInv
  <2>2. UpIn(node, p, n)
    BY Zenon, <1>3, <1>9, <2>1
  <2> QED BY Zenon, <1>1, <2>2 DEF UpIn
<1>14. r.rx \in [Nodes -> Entries \cup {None}] /\ r.rx[p] \in Entries \cup {None}
  BY Zenon, <1>2 DEF NodeStates
<1>15. r.rx[p] # None => r.rx[p].advert.seqno <= issued
  BY Zenon, <1>2 DEF Low
<1>16. PICK a \in Entries \cup {None} : a = Applied(r.rx[p], m.reach) /\ (a # None => a.advert.seqno <= issued)
  BY Zenon, <1>2, <1>9, <1>12, <1>14, <1>15, AppliedLow
<1>17. rx \in [Nodes -> Entries \cup {None}] /\ rx[p] = a /\ \A o \in Nodes : o # p => rx[o] = r.rx[o]
  BY Zenon, <1>6, <1>14, <1>16
<1>18. v \in NodeStates
  BY Zenon, <1>2, <1>7, <1>17 DEF NodeStates
<1>19. /\ v.link = r.link /\ v.peers = r.peers /\ v.streams = r.streams
       /\ v.origin = r.origin /\ v.fd = r.fd /\ v.rx = rx /\ v.pending = r.pending
       /\ v.sent = r.sent /\ v.unacked = r.unacked /\ v.out = r.out
  BY <1>2, <1>7 DEF NodeStates
<1>20. Sane(v) /\ Silent(v)
  <2>1. \A o \in Nodes : o \notin r.peers => rx[o] = None
    BY Zenon, <1>2, <1>13, <1>17 DEF Sane
  <2>2. Silent(v)
    BY Zenon, <1>2, <1>19 DEF Silent
  <2> QED BY Zenon, <1>2, <1>19, <2>1, <2>2 DEF Sane
<1>21. \A o \in Nodes : v.rx[o] # None => v.rx[o].advert.seqno <= issued
  <2>1. \A o \in Nodes : r.rx[o] # None => r.rx[o].advert.seqno <= issued
    BY Zenon, <1>2 DEF Low
  <2> QED BY Zenon, <1>16, <1>17, <1>19, <2>1
<1>22. Low(v, issued)
  BY Zenon, <1>2, <1>19, <1>21 DEF Low
<1> QED BY Zenon, <1>11, <1>12, <1>18, <1>20, <1>22, FlushSame

\* echo keeps the network calm.
LEMMA TakeEchoCalm ==
    ASSUME Counting, Net, Calm, NEW n \in Nodes, NEW p \in Nodes, TakeEcho(n, p) PROVE Calm'
<1>1. PICK r : r = node[n]
  BY Zenon
<1>2. /\ r \in NodeStates /\ Sane(r) /\ Silent(r) /\ Low(r, issued) /\ Quiet(r) /\ issued \in Nat
      /\ queue \in [Pairs -> Seq(Messages)]
      /\ \A c \in Pairs : \A j \in DOMAIN queue[c] : Modest(queue[c][j], issued)
  BY Zenon, <1>1, CalmNode
<1>3. PICK k : k = [acks EXCEPT ![<<p, n>>] = @ - 1]
  BY Zenon
<1>4. Flush(n, Echoed(r, p), queue, k)
  BY Zenon, <1>1, <1>3 DEF TakeEcho
<1>5. CASE r.unacked[p] = 0
  <2>1. Flush(n, r, queue, k)
    BY Zenon, <1>4, <1>5 DEF Echoed
  <2> QED BY Zenon, <1>2, <2>1, PlainCalm
<1>6. CASE r.unacked[p] # 0
  <2>1. PICK un : un = [r.unacked EXCEPT ![p] = @ - 1]
    BY Zenon
  <2>2. PICK v : v = [r EXCEPT !.unacked = un]
    BY Zenon
  <2>3. Flush(n, Update(v), queue, k)
    <3>1. v = [r EXCEPT !.unacked[p] = @ - 1]
      BY <2>1, <2>2
    <3> QED BY Zenon, <1>4, <1>6, <3>1 DEF Echoed
  <2>4. r.unacked \in [Nodes -> Nat]
    BY Zenon, <1>2 DEF NodeStates
  <2>5. r.unacked[p] - 1 \in Nat
    BY <1>6, <2>4
  <2>6. un \in [Nodes -> Nat] /\ \A o \in Nodes : o # p => un[o] = r.unacked[o]
    BY Zenon, <2>1, <2>4, <2>5
  <2>7. p \in r.peers
    BY Zenon, <1>2, <1>6 DEF Sane
  <2>8. v \in NodeStates
    BY Zenon, <1>2, <2>2, <2>6 DEF NodeStates
  <2>9. /\ v.link = r.link /\ v.peers = r.peers /\ v.streams = r.streams
        /\ v.origin = r.origin /\ v.fd = r.fd /\ v.rx = r.rx /\ v.pending = r.pending
        /\ v.sent = r.sent /\ v.unacked = un /\ v.out = r.out
    BY <1>2, <2>2 DEF NodeStates
  <2>10. Sane(v) /\ Silent(v)
    BY Zenon, <1>2, <2>6, <2>7, <2>9 DEF Sane, Silent
  <2>11. Low(v, issued)
    BY Zenon, <1>2, <2>9 DEF Low
  <2> QED BY Zenon, <1>2, <2>3, <2>8, <2>10, <2>11, FlushSame
<1> QED BY Zenon, <1>5, <1>6

\* A restarted process knows nothing and owes nothing.
LEMMA ExitCalm ==
    ASSUME Counting, Net, Calm, NEW n \in Nodes, Exit(n) PROVE Calm'
<1>1. /\ node[n] \in NodeStates /\ issued \in Nat /\ queue \in [Pairs -> Seq(Messages)]
      /\ \A c \in Pairs : \A j \in DOMAIN queue[c] : Modest(queue[c][j], issued)
      /\ \A m \in Nodes : Low(node[m], issued) /\ Quiet(node[m])
  BY Zenon, CalmNode
<1>2. PICK S : queue' = Lost(S)
  BY Zenon DEF Exit
<1>3. PICK r : r = New(node[n].link)
  BY Zenon
<1>4. node' = [node EXCEPT ![n] = r] /\ issued' = issued
  BY Zenon, <1>3 DEF Exit
<1>5. node[n].link \in [Nodes -> Links \cup {None}] /\ node \in [Nodes -> NodeStates]
  BY Zenon, <1>1 DEF NodeStates, Net, NetInv
<1>6. Quiet(r)
  BY Zenon, <1>3, <1>5, NewQuiet
<1>7. r.origin = None /\ r.fd = None /\ r.pending = None /\ r.rx = [p \in Nodes |-> None]
  BY <1>3 DEF New
<1>8. Low(r, issued)
  <2>1. \A p \in Nodes : r.rx[p] = None
    BY Zenon, <1>7
  <2> QED BY Zenon, <1>7, <2>1 DEF Low
<1>9. \A m \in Nodes : Low(node'[m], issued) /\ Quiet(node'[m])
  BY Zenon, <1>1, <1>4, <1>5, <1>6, <1>8
<1>10. \A c \in Pairs : \A j \in DOMAIN queue'[c] : Modest(queue'[c][j], issued)
  BY Zenon, <1>1, <1>2, LostModest
<1> QED BY Zenon, <1>1, <1>4, <1>9, <1>10 DEF Calm, Modesty, AllQuiet

\* connect changes nothing that selection sees.
LEMMA ConnectedQuiet ==
    ASSUME Counting, NEW r \in NodeStates, Sane(r), Quiet(r), NEW i, Low(r, i),
           NEW p \in Nodes, p \notin r.peers, r.link[p] # None
    PROVE  Quiet(Connected(r, p)) /\ Low(Connected(r, p), i)
<1>1. PICK v : v = Connected(r, p)
  BY Zenon
<1>2. v = [r EXCEPT !.peers = @ \cup {p}, !.draining = @ \ {p}, !.streams = @ \ {p}]
  BY Zenon, <1>1 DEF Connected
<1>3. v \in NodeStates
  BY Zenon, <1>2 DEF NodeStates
<1>4. /\ v.link = r.link /\ v.peers = r.peers \cup {p} /\ v.streams = r.streams \ {p}
      /\ v.draining = r.draining \ {p}
      /\ v.origin = r.origin /\ v.fd = r.fd /\ v.rx = r.rx /\ v.pending = r.pending
      /\ v.sent = r.sent /\ v.unacked = r.unacked
  BY <1>2 DEF NodeStates
<1>5. r.rx[p] = None /\ r.streams \subseteq r.peers
  BY Zenon DEF Sane
<1>6. v.streams = r.streams
  BY <1>4, <1>5
<1>7. Sane(v)
  BY Zenon, <1>4, <1>6 DEF Sane
<1>8. SameView(r, v)
  BY Zenon, <1>4, <1>5 DEF SameView
<1>9. Quiet(v)
  BY Zenon, <1>3, <1>4, <1>6, <1>7, <1>8, QuietSame
<1>10. Low(v, i)
  BY Zenon, <1>4 DEF Low
<1> QED BY Zenon, <1>1, <1>9, <1>10

\* A new session tells nobody anything yet.
LEMMA ConnectCalm ==
    ASSUME Counting, Net, Calm, NEW n \in Nodes, NEW p \in Nodes, Connect(n, p) PROVE Calm'
<1>1. /\ \A m \in Nodes : /\ node[m] \in NodeStates /\ Sane(node[m])
                          /\ Low(node[m], issued) /\ Quiet(node[m])
      /\ issued \in Nat
      /\ \A c \in Pairs : \A j \in DOMAIN queue[c] : Modest(queue[c][j], issued)
  BY Zenon, CalmNode
<1>2. /\ node[n].link[p] # None /\ n < p /\ p \notin node[n].peers /\ n \notin node[p].peers
      /\ node' = [node EXCEPT ![n] = Connected(@, p), ![p] = Connected(@, n)]
      /\ queue' = queue /\ issued' = issued
  BY Zenon DEF Connect
<1>3. n # p
  <2>1. n \in Nat /\ p \in Nat
    BY Zenon, RouterAssumption
  <2> QED BY <1>2, <2>1
<1>4. node[p].link[n] # None /\ node \in [Nodes -> NodeStates]
  BY Zenon, <1>2 DEF Net, NetInv
<1>5. PICK a : a = Connected(node[n], p)
  BY Zenon
<1>6. PICK b : b = Connected(node[p], n)
  BY Zenon
<1>7. Quiet(a) /\ Low(a, issued)
  BY Zenon, <1>1, <1>2, <1>5, ConnectedQuiet
<1>8. Quiet(b) /\ Low(b, issued)
  BY Zenon, <1>1, <1>2, <1>4, <1>6, ConnectedQuiet
<1>9. \A m \in Nodes : node'[m] \in {a, b, node[m]}
  BY <1>2, <1>3, <1>4, <1>5, <1>6
<1>10. \A m \in Nodes : Low(node'[m], issued) /\ Quiet(node'[m])
  BY Zenon, <1>1, <1>7, <1>8, <1>9
<1> QED BY Zenon, <1>1, <1>2, <1>10 DEF Calm, Modesty, AllQuiet

\* A settled network is calm.
LEMMA InitCalm == Counting /\ Init => Calm
<1> SUFFICES ASSUME Counting, Init PROVE Calm
  OBVIOUS
<1>1. PICK s \in Scenarios : node = [n \in Nodes |-> SettledNode(s, n)] /\ issued = s.seqno
  BY Zenon DEF Init
<1>2. issued \in Nat
  BY Zenon, <1>1, MeshAssumption
<1>3. \A c \in Pairs : \A j \in DOMAIN queue[c] : Modest(queue[c][j], issued)
  <2>1. \A c \in Pairs : queue[c] = <<>>
    BY Zenon DEF Init
  <2>2. DOMAIN <<>> = {}
    OBVIOUS
  <2> QED BY Zenon, <2>1, <2>2
<1>4. ASSUME NEW n \in Nodes PROVE Low(node[n], issued) /\ Quiet(node[n])
  <2>1. PICK r : r = SettledNode(s, n)
    BY Zenon
  <2>2. node[n] = r
    BY Zenon, <1>1, <2>1
  <2>3. /\ r \in NodeStates /\ Sane(r) /\ Silent(r)
        /\ \A p \in Nodes : r.rx[p] = IF Told(s, p, n) = None THEN None
                                      ELSE [advert |-> Told(s, p, n), held |-> FALSE]
    BY Zenon, <2>1, SettledOK DEF AtRest
  <2>4. Quiet(r)
    <3>1. Update(r) = r
      BY Zenon, <2>1, SettledAssumption
    <3>2. Muted(r) = r
      <4>1. r.out = [p \in Nodes |-> <<>>]
        BY <2>3 DEF NodeStates, Silent
      <4> QED BY Zenon, <2>3, <4>1 DEF Muted, NodeStates
    <3> QED BY Zenon, <2>3, <3>1, <3>2, UpdateQuiet
  <2>5. ASSUME NEW p \in Nodes, r.rx[p] # None PROVE r.rx[p].advert.seqno <= issued
    <3>1. PICK t : t = Told(s, p, n)
      BY Zenon
    <3>2. t # None /\ r.rx[p] = [advert |-> t, held |-> FALSE]
      BY Zenon, <2>3, <2>5, <3>1
    <3>3. r.rx[p].advert = t
      BY <3>2
    <3>4. t.seqno = issued
      BY Zenon, <1>1, <3>1, <3>2, ToldType
    <3> QED BY <1>2, <3>3, <3>4
  <2>6. /\ r.origin = IF n = Origin THEN s.seqno ELSE None
        /\ r.fd = IF \E p \in Nodes : Told(s, n, p) # None
                  THEN [seqno |-> s.seqno, metric |-> s.dist[n]] ELSE None
        /\ r.pending = None
    BY Zenon, <2>1 DEF SettledNode, New
  <2>7. /\ r.origin # None => r.origin <= issued
        /\ r.fd # None => r.fd.seqno <= issued
    <3>1. r.origin # None => r.origin = issued
      BY Zenon, <1>1, <2>6
    <3>2. r.fd # None => r.fd = [seqno |-> issued, metric |-> s.dist[n]]
      BY Zenon, <1>1, <2>6
    <3> QED BY <1>2, <3>1, <3>2
  <2>8. Low(r, issued)
    BY Zenon, <2>5, <2>6, <2>7 DEF Low
  <2> QED BY Zenon, <2>2, <2>4, <2>8
<1> QED BY Zenon, <1>2, <1>3, <1>4 DEF Calm, Modesty, AllQuiet

\* Every step keeps the network calm.
LEMMA NextCalm == Counting /\ Net /\ Calm /\ [Next]_vars => Calm'
<1> SUFFICES ASSUME Counting, Net, Calm, [Next]_vars PROVE Calm'
  OBVIOUS
<1>1. ASSUME NEW n \in Nodes, NEW p \in Nodes, Connect(n, p) PROVE Calm'
  BY Zenon, <1>1, ConnectCalm
<1>2. ASSUME NEW n \in Nodes, NEW p \in Nodes, OpenStream(n, p) PROVE Calm'
  BY Zenon, <1>2, OpenStreamCalm
<1>3. ASSUME NEW n \in Nodes, NEW p \in Nodes, Close(n, p) PROVE Calm'
  BY Zenon, <1>3, DropCalm DEF Close, Up
<1>4. ASSUME NEW n \in Nodes, NEW p \in Nodes, Notice(n, p) PROVE Calm'
  BY Zenon, <1>4, DropCalm DEF Notice
<1>5. ASSUME NEW n \in Nodes, NEW p \in Nodes, Drain(n, p) PROVE Calm'
  BY Zenon, <1>5, DrainCalm
<1>6. ASSUME NEW n \in Nodes, NEW p \in Nodes, TakeRoute(n, p) PROVE Calm'
  BY Zenon, <1>6, TakeRouteCalm
<1>7. ASSUME NEW n \in Nodes, NEW p \in Nodes, TakeRequest(n, p) PROVE Calm'
  BY Zenon, <1>7, TakeRequestCalm
<1>8. ASSUME NEW n \in Nodes, NEW p \in Nodes, TakeEcho(n, p) PROVE Calm'
  BY Zenon, <1>8, TakeEchoCalm
<1>9. ASSUME NEW n \in Nodes, Exit(n) PROVE Calm'
  BY Zenon, <1>9, ExitCalm
<1>10. CASE Bump
  BY Zenon, <1>10, BumpCalm
<1>11. CASE UNCHANGED vars
  BY Zenon, <1>11 DEF vars, Calm, Modesty, AllQuiet
<1> QED BY Zenon, <1>1, <1>2, <1>3, <1>4, <1>5, <1>6, <1>7, <1>8, <1>9, <1>10, <1>11 DEF Next

\* The distance order: a is strictly nearer the origin than b.
Nearer(a, b) ==
    /\ a # None
    /\ \/ b = None
       \/ a.seqno > b.seqno
       \/ a.seqno = b.seqno /\ a.metric < b.metric

\* Being nearer is a strict order on distances.
LEMMA NearerOrder ==
    ASSUME NEW a \in Distances \cup {None}, NEW b \in Distances \cup {None},
           NEW c \in Distances \cup {None}
    PROVE  ~Nearer(a, a) /\ (Nearer(a, b) /\ Nearer(b, c) => Nearer(a, c))
<1>1. \A x \in {a, b, c} : x # None => x.seqno \in Nat /\ x.metric \in Nat
  BY DEF Distances
<1>2. ~Nearer(a, a)
  BY <1>1 DEF Nearer
<1>3. ASSUME Nearer(a, b), Nearer(b, c) PROVE Nearer(a, c)
  BY SMTT(60), <1>1, <1>3 DEF Nearer
<1> QED BY <1>2, <1>3

\* A usable next hop is strictly nearer: it keeps the distance of what it told.
LEMMA HopIsNearer ==
    ASSUME Net, NEW n \in Nodes, NEW p \in Hops(n)
    PROVE  p \in Nodes /\ Nearer(node[p].fd, node[n].fd)
<1> DEFINE a == node[n].rx[p].advert
<1>1. /\ p \in Nodes /\ node[n].rx[p] # None /\ FeasibleFrom(node[n].fd, a) /\ UpIn(node, p, n)
  BY SMTT(60) DEF Hops, Usable, Heard, Feasible, Up, UpIn
<1>2. ~FeasibleFrom(node[p].fd, a)
  BY ZenonT(60), <1>1 DEF Net, NetInv, Agree
<1>3. node[n] \in NodeStates /\ node[p] \in NodeStates
  BY SMTT(60), <1>1 DEF Net, NetInv
<1>4. /\ node[n].fd \in Distances \cup {None} /\ node[p].fd \in Distances \cup {None}
      /\ a \in Adverts
  BY SMTT(60), <1>1, <1>3 DEF NodeStates, Entries
<1> HIDE DEF a
<1>5. node[p].fd # None
  BY SMTT(60), <1>2 DEF FeasibleFrom
<1>6. CASE node[n].fd = None
  BY SMTT(60), <1>1, <1>5, <1>6 DEF Nearer
<1>7. CASE node[n].fd # None
  <2> DEFINE f == node[n].fd  g == node[p].fd
  <2>1. f.seqno \in Nat /\ f.metric \in Nat /\ g.seqno \in Nat /\ g.metric \in Nat
        /\ a.seqno \in Nat /\ a.metric \in Nat
    BY SMTT(60), <1>4, <1>5, <1>7 DEF Distances, Adverts
  <2> HIDE DEF f, g
  <2>2. g # None /\ f # None /\ FeasibleFrom(f, a) /\ ~FeasibleFrom(g, a)
    BY SMTT(60), <1>1, <1>2, <1>5, <1>7 DEF f, g
  <2>3. Nearer(g, f)
    BY SMTT(60), <2>1, <2>2 DEF FeasibleFrom, Nearer
  <2> QED BY SMTT(60), <1>1, <2>3 DEF f, g
<1> QED BY SMTT(60), <1>6, <1>7

-----------------------------------------------------------------------------
\* Counting, from the library's theorems about finite sets and functions.
INSTANCE FiniteSetTheorems
INSTANCE FunctionTheorems

\* A non-empty set of naturals has a least element.
LEMMA NatMin ==
    ASSUME NEW S, S \subseteq Nat, S # {}
    PROVE  \E m \in S : \A k \in S : m <= k
<1>1. PICK m \in S : \A k \in S : <<k, m>> \notin OpToRel(<, Nat)
  BY Zenon, NatLessThanWellFounded, WFMin
<1>2. \A k \in S : ~(k < m)
  BY Zenon, <1>1 DEF OpToRel
<1>3. \A k \in S : m <= k
  BY <1>2
<1> QED
  BY <1>3

\* The ENDs in flight are finitely many.
LEMMA EndsFinite ==
    ASSUME NEW q \in Seq(Messages)
    PROVE  IsFiniteSet({i \in DOMAIN q : q[i] = End}) /\ Ends(q) \in Nat
<1>1. IsFiniteSet(1..Len(q))
  BY FS_Interval
<1>2. IsFiniteSet({i \in DOMAIN q : q[i] = End})
  BY <1>1, FS_Subset
<1> QED BY <1>2, FS_CardinalityType DEF Ends

\* Without ENDs the number is zero.
LEMMA EndsZero ==
    ASSUME NEW q \in Seq(Messages), Ends(q) = 0
    PROVE  \A i \in DOMAIN q : q[i] # End
  BY EndsFinite, FS_EmptySet DEF Ends

\* Appending a message counts it if it is an END.
LEMMA EndsMore ==
    ASSUME NEW q \in Seq(Messages), NEW m \in Messages
    PROVE  Ends(Append(q, m)) = Ends(q) + IF m = End THEN 1 ELSE 0
<1> DEFINE S == {i \in DOMAIN q : q[i] = End}
           T == {i \in DOMAIN Append(q, m) : Append(q, m)[i] = End}
<1>1. IsFiniteSet(S) /\ Cardinality(S) \in Nat
  BY EndsFinite DEF Ends
<1>2. Len(q) + 1 \notin S
  OBVIOUS
<1>3. T = IF m = End THEN S \cup {Len(q) + 1} ELSE S
  OBVIOUS
<1>4. Ends(q) = Cardinality(S) /\ Ends(Append(q, m)) = Cardinality(T)
  BY DEF Ends
<1> HIDE DEF S, T
<1>5. Cardinality(S \cup {Len(q) + 1}) = Cardinality(S) + 1
  BY Zenon, <1>1, <1>2, FS_AddElement
<1> QED BY <1>1, <1>3, <1>4, <1>5

\* Taking a message off the front uncounts it if it is an END.
LEMMA EndsLess ==
    ASSUME NEW q \in Seq(Messages), q # <<>>
    PROVE  Ends(q) = Ends(Tail(q)) + IF Head(q) = End THEN 1 ELSE 0
<1> DEFINE S == {i \in DOMAIN Tail(q) : Tail(q)[i] = End}
           U == {i \in DOMAIN q : q[i] = End /\ i > 1}
           T == {i \in DOMAIN q : q[i] = End}
           f == [i \in S |-> i + 1]
<1>0. Tail(q) \in Seq(Messages) /\ Len(Tail(q)) = Len(q) - 1 /\ Len(q) \in Nat /\ Len(q) > 0
      /\ \A i \in 1..Len(Tail(q)) : Tail(q)[i] = q[i + 1]
  BY FrontTaken
<1>1. IsFiniteSet(S) /\ Cardinality(S) \in Nat
  BY Zenon, <1>0, EndsFinite DEF Ends
<1>2. f \in Bijection(S, U)
  <2>1. f \in [S -> U]
    BY <1>0
  <2>2. \A i, j \in S : f[i] = f[j] => i = j
    BY <1>0
  <2>3. \A j \in U : \E i \in S : f[i] = j
    <3>1. ASSUME NEW j \in U PROVE j - 1 \in S /\ f[j - 1] = j
      BY <1>0
    <3> QED BY Zenon, <3>1
  <2> QED BY Zenon, <2>1, <2>2, <2>3, Fun_IsBij
<1>3. IsFiniteSet(U) /\ Cardinality(U) = Cardinality(S)
  BY ZenonT(60), <1>1, <1>2, FS_Bijection DEF ExistsBijection
<1>4. T = (IF Head(q) = End THEN U \cup {1} ELSE U) /\ 1 \notin U
  BY <1>0
<1>5. Ends(Tail(q)) = Cardinality(S) /\ Ends(q) = Cardinality(T)
  BY DEF Ends
<1> HIDE DEF S, T, U
<1>6. Cardinality(U \cup {1}) = Cardinality(U) + 1
  BY Zenon, <1>3, <1>4, FS_AddElement
<1> QED BY <1>1, <1>3, <1>4, <1>5, <1>6

\* Taking any other message leaves the count.
LEMMA EndsWithout ==
    ASSUME NEW q \in Seq(Messages), NEW i \in DOMAIN q, q[i] # End
    PROVE  Ends(Without(q, i)) = Ends(q)
<1>1. PICK t : t = Without(q, i)
  BY Zenon
<1> DEFINE S == {j \in DOMAIN t : t[j] = End}
           T == {j \in DOMAIN q : q[j] = End}
           f == [j \in S |-> IF j < i THEN j ELSE j + 1]
<1>2. /\ t \in Seq(Messages) /\ Len(q) \in Nat /\ DOMAIN t = 1..(Len(q) - 1) /\ DOMAIN q = 1..Len(q)
      /\ \A j \in DOMAIN t : t[j] = IF j < i THEN q[j] ELSE q[j + 1]
  BY Zenon, <1>1, OneTaken
<1>3. IsFiniteSet(S)
  BY Zenon, <1>2, EndsFinite
<1>4. f \in Bijection(S, T)
  <2>1. f \in [S -> T]
    <3>1. ASSUME NEW j \in S PROVE (IF j < i THEN j ELSE j + 1) \in T
      BY <1>2
    <3> QED BY Zenon, <3>1
  <2>2. \A j, h \in S : f[j] = f[h] => j = h
    BY <1>2
  <2>3. \A h \in T : \E j \in S : f[j] = h
    <3>1. ASSUME NEW h \in T PROVE \E j \in S : f[j] = h
      <4>1. h # i
        OBVIOUS
      <4>2. CASE h < i
        <5>1. h \in S
          BY <1>2, <4>2
        <5> QED BY <4>2, <5>1
      <4>3. CASE ~(h < i)
        <5>1. h - 1 \in S /\ ~(h - 1 < i) /\ (h - 1) + 1 = h
          BY <1>2, <4>1, <4>3
        <5> QED BY Zenon, <5>1
      <4> QED BY Zenon, <4>2, <4>3
    <3> QED BY Zenon, <3>1
  <2> QED BY Zenon, <2>1, <2>2, <2>3, Fun_IsBij
<1>5. Cardinality(T) = Cardinality(S)
  BY ZenonT(60), <1>3, <1>4, FS_Bijection DEF ExistsBijection
<1> QED BY Zenon, <1>1, <1>5 DEF Ends

\* What the lemmas above use of counting.
LEMMA Counts == Counting
<1>1. Ends(<<>>) = 0
  <2>1. {i \in DOMAIN <<>> : <<>>[i] = End} = {}
    OBVIOUS
  <2> QED BY <2>1, FS_EmptySet DEF Ends
<1>2. \A S \in SUBSET Nat : S # {} => \E m \in S : \A k \in S : m <= k
  BY Zenon, NatMin
<1>3. ASSUME NEW q \in Seq(Messages)
      PROVE  /\ Ends(q) \in Nat
             /\ Ends(q) = 0 => \A i \in DOMAIN q : q[i] # End
             /\ \A m \in Messages : Ends(Append(q, m)) = Ends(q) + IF m = End THEN 1 ELSE 0
             /\ q # <<>> => Ends(q) = Ends(Tail(q)) + IF Head(q) = End THEN 1 ELSE 0
             /\ \A i \in DOMAIN q : q[i] # End => Ends(Without(q, i)) = Ends(q)
  BY Zenon, EndsFinite, EndsZero, EndsMore, EndsLess, EndsWithout
<1> QED BY Zenon, <1>1, <1>2, <1>3 DEF Counting

\* A set in which every node had a next hop would hold ever nearer nodes, and is finite.
LEMMA NetLoopFree == Net => LoopFree
<1> SUFFICES ASSUME Net, NEW S \in (SUBSET Nodes) \ {{}}, \A n \in S : Hops(n) \cap S # {}
             PROVE  FALSE
  BY DEF LoopFree
<1> DEFINE Above(n) == {m \in S : Nearer(node[m].fd, node[n].fd)}
           Sizes == {Cardinality(Above(n)) : n \in S}
<1>1. \A n \in S : IsFiniteSet(Above(n)) /\ Cardinality(Above(n)) \in Nat
  <2>1. IsFiniteSet(S)
    BY Zenon, FS_Subset, RouterAssumption
  <2> TAKE n \in S
  <2>2. Above(n) \subseteq S
    OBVIOUS
  <2> QED BY SMTT(60), <2>1, <2>2, FS_Subset, FS_CardinalityType
<1>2. Sizes \subseteq Nat /\ Sizes # {}
  BY Zenon, <1>1
<1>3. PICK c \in Sizes : \A d \in Sizes : c <= d
  BY Zenon, <1>2, NatMin
<1>4. PICK n \in S : c = Cardinality(Above(n))
  BY SMTT(60), <1>3
<1>5. PICK p \in S : p \in Hops(n)
  OBVIOUS
<1>6. Nearer(node[p].fd, node[n].fd)
  BY <1>5, HopIsNearer
<1>7. \A m \in S : node[m].fd \in Distances \cup {None}
  BY SMTT(60) DEF Net, NetInv, NodeStates
<1>8. Above(p) \subseteq Above(n) /\ p \in Above(n) /\ p \notin Above(p)
  <2>1. \A m \in S : Nearer(node[m].fd, node[p].fd) => Nearer(node[m].fd, node[n].fd)
    BY Zenon, <1>6, <1>7, NearerOrder
  <2>2. ~Nearer(node[p].fd, node[p].fd)
    BY <1>7, NearerOrder
  <2> QED BY SMTT(60), <1>6, <2>1, <2>2
<1>9. c <= Cardinality(Above(p))
  BY Zenon, <1>3
<1> HIDE DEF Above
<1>10. Cardinality(Above(p)) <= c /\ Cardinality(Above(p)) # c
  BY <1>1, <1>4, <1>8, FS_Subset
<1> QED BY SMTT(60), <1>1, <1>4, <1>9, <1>10

\* The invariant holds at every step.
LEMMA AlwaysNet == Spec => []Net
  BY Counts, InitOK, NextOK, PTL DEF Spec

\* Next hops never form a loop (requests, route/mod.rs: "next hops form no loop"), whatever
\* is in flight, through half-closed sessions, restarts, draining and rotation.
THEOREM NoRoutingLoops == Spec => []LoopFree
  BY AlwaysNet, NetLoopFree, PTL

\* A node keeps a distance no worse than anything a neighbour holds or is still to receive
\* from it, although echoes are not ordered with routes (update, route/mod.rs).
THEOREM DistanceOutlivesAdverts == Spec => []DistanceKept
<1>1. Net => DistanceKept
  <2> SUFFICES ASSUME Net, NEW n \in Nodes, NEW p \in Nodes, Up(n, p)
               PROVE  LET q == queue[<<p, n>>] IN
                      /\ node[n].rx[p] # None => ~FeasibleFrom(node[p].fd, node[n].rx[p].advert)
                      /\ \A i \in DOMAIN q : IsFinite(q[i]) => ~FeasibleFrom(node[p].fd, q[i].reach)
    BY Zenon DEF DistanceKept
  <2>1. UpIn(node, p, n)
    BY SMTT(60) DEF Up, UpIn
  <2>2. Agree(queue[<<p, n>>], acks[<<n, p>>], node[n].rx[p], node[p].sent[n], node[p].unacked[n], node[p].fd)
    BY <2>1 DEF Net, NetInv
  <2> QED BY SMTT(60), <2>2 DEF Agree
<1> QED BY <1>1, AlwaysNet, PTL

\* The network is always calm.
LEMMA AlwaysCalm == Spec => [](Net /\ Calm)
  BY AlwaysNet, Counts, InitCalm, NextCalm, PTL DEF Spec

\* Nobody ever asks for a seqno more than one past the newest the origin had (requests and
\* request, route/mod.rs), however requests travel, are merged and are answered late.
THEOREM SeqnoNotInflated == Spec => []NoInflation
<1>1. Net /\ Calm => NoInflation
  BY Zenon DEF Calm, Modesty, Low, NoInflation
<1> QED BY <1>1, AlwaysCalm, PTL

\* After every handler update would do nothing: selecting before recording and deciding
\* liveness after it leave nothing owed (update and advertise, route/mod.rs).
THEOREM UpdateSettles == Spec => []NothingOwed
<1>1. Net /\ Calm => NothingOwed
  <2> SUFFICES ASSUME Net, Calm, NEW n \in Nodes PROVE Update(node[n]) = node[n]
    BY Zenon DEF NothingOwed
  <2>1. node[n] \in NodeStates /\ Sane(node[n]) /\ Quiet(node[n])
    BY Zenon, CalmNode
  <2> QED BY Zenon, <2>1, Counts, QuietUpdate
<1> QED BY <1>1, AlwaysCalm, PTL
=============================================================================
