------------------------------- MODULE MCMesh -------------------------------
(***************************************************************************)
(* Small instances of Mesh for TLC: three nodes in a triangle, where the   *)
(* direct link between the origin and node 2 is dearer than the path       *)
(* through node 1, and a pair of nodes.  Each scenario names the           *)
(* disruptions that may befall its network, at any time and in any order.  *)
(***************************************************************************)
EXTENDS Mesh, FiniteSetsExt, TLC

Plain(cost) == [cost |-> cost, priority |-> 0, upstream |-> FALSE, proxy |-> TRUE]
Both(n, p, cost) == <<n, p>> :> Plain(cost) @@ <<p, n>> :> Plain(cost)
Unlinked == [c \in Pairs |-> None]
Pair == Both(0, 1, 1) @@ Unlinked
Triangle == Both(0, 1, 1) @@ Both(1, 2, 1) @@ Both(0, 2, 3) @@ Unlinked
\* Node 1 regards the origin as upstream, and node 2 regards node 1 so.
Uplinks == [Triangle EXCEPT ![<<1, 0>>].upstream = TRUE, ![<<2, 1>>].upstream = TRUE]
\* Node 2 forwards nothing it learned.
Leaf == [Triangle EXCEPT ![<<2, 0>>].proxy = FALSE, ![<<2, 1>>].proxy = FALSE]
\* Node 2 prefers its direct link to the cheaper path.
Prefers == [Triangle EXCEPT ![<<2, 0>>].priority = 1]

Cheapest == 0 :> 0 @@ 1 :> 1 @@ 2 :> 2
Faulty(links, faults) ==
    [links |-> links, dist |-> Cheapest, down |-> {}, seqno |-> 0,
     faults |-> faults @@ [f \in Faults |-> 0]]

\* A link fails and comes back while the origin advances its seqno.
Flap(links) == Faulty(links, "close" :> 1 @@ "connect" :> 1 @@ "bump" :> 1)
\* The origin is one step from the largest seqno: a bump retires the identity.
LastSeqno(s) == [s EXCEPT !.seqno = MAX - 1]
\* The two nodes' only link fails and comes back around the retirement.
Ghost == LastSeqno(Flap(Pair))

Disrupted ==
    {Flap(Triangle),
     Flap(Leaf),
     [Flap(Uplinks) EXCEPT !.down = {1, 2}],
     Faulty(Triangle, "close" :> 2 @@ "connect" :> 1),
     Faulty(Triangle, "exit" :> 1 @@ "connect" :> 2),
     [Faulty(Prefers, "drain" :> 1 @@ "close" :> 1 @@ "bump" :> 1) EXCEPT !.dist[2] = 3],
     LastSeqno(Faulty(Triangle, "bump" :> 1 @@ "close" :> 1)),
     Ghost}
Revived == {Ghost}

\* All the links together: no path without a repeated node costs more.
TotalCost ==
    LET cost(c) == node[c[1]].link[c[2]] IN
    MapThenSumSet(LAMBDA c : IF cost(c) = None THEN 0 ELSE cost(c).cost, Pairs)

\* "Retraction is ROUTE_HOLD or ROUTE_END; there is no count to infinity": the
\* metric a node selects never outgrows every path of the network.
NoCountToInfinity ==
    \A n \in Nodes : LET sel == Selected(node[n]) IN sel # None => sel.metric <= TotalCost
=============================================================================
