------------------------------- MODULE AnyNet -------------------------------
(***************************************************************************)
(* BookSim networks of any shape, read from a file (networks/anynet.cpp):  *)
(* the ports of the routers, the routing tables that Dijkstra's algorithm  *)
(* fills in for every router, and the routing by these tables.             *)
(***************************************************************************)
EXTENDS BookSimRoute

CONSTANTS
  Size,                \* routers are 0..Size-1
  RouterOf,            \* the router of each node
  LinkWeight           \* weights of the links, which need not be symmetric

Nodes == DOMAIN RouterOf
Routers == 0..(Size - 1)

Ascending(S) == SetToSortSeq(S, LAMBDA a, b : a < b)
Neighbors(r) == {s \in Routers : <<r, s>> \in DOMAIN LinkWeight}
NodesAt(r) == {node \in Nodes : RouterOf[node] = r}

\* Ports lead to the nodes, then to the neighbours, in ascending order.
Peers(r) ==
  [i \in 1..Cardinality(NodesAt(r)) |-> <<"node", Ascending(NodesAt(r))[i]>>] \o
  [i \in 1..Cardinality(Neighbors(r)) |-> <<"router", Ascending(Neighbors(r))[i]>>]

Ports(r) == 0..(Len(Peers(r)) - 1)
PortTo(r, peer) == (CHOOSE i \in DOMAIN Peers(r) : Peers(r)[i] = peer) - 1
HomeOf(node) == <<RouterOf[node], PortTo(RouterOf[node], <<"node", node>>)>>

\* A channel is known by the routers it connects.
OutChannel(r, p) ==
  LET peer == Peers(r)[p + 1]
  IN IF peer[1] = "node" THEN <<"eject", peer[2]>> ELSE <<"chan", r * Size + peer[2]>>
InChannel(r, p) ==
  LET peer == Peers(r)[p + 1]
  IN IF peer[1] = "node" THEN <<"inject", peer[2]>> ELSE <<"chan", peer[2] * Size + r>>

Infinite == 1 + MapThenSumSet(LAMBDA link : LinkWeight[link], DOMAIN LinkWeight)

\* One round of the algorithm: the nearest router that is left, the first of
\* them, shortens the way to its neighbours.
Relax(t) ==
  LET near == CHOOSE r \in t.left :
                \A s \in t.left : t.dist[r] < t.dist[s] \/ (t.dist[r] = t.dist[s] /\ r <= s)
      new_dist(s) == t.dist[near] + LinkWeight[<<near, s>>]
      shorter == {s \in Neighbors(near) : new_dist(s) < t.dist[s]}
  IN [left |-> t.left \ {near},
      dist |-> [s \in shorter |-> new_dist(s)] @@ t.dist,
      prev |-> [s \in shorter |-> near] @@ t.prev]

Tree(start) ==
  FoldLeft(LAMBDA t, i : Relax(t),
           [left |-> Routers, prev |-> [s \in Routers |-> -1],
            dist |-> [s \in Routers |-> IF s = start THEN 0 ELSE Infinite]],
           [i \in 1..Size |-> i])

\* The neighbour of start on the way to a router.
RECURSIVE FirstHop(_, _, _)
FirstHop(prev, start, r) == IF prev[r] = start THEN r ELSE FirstHop(prev, start, prev[r])

\* The routing table of a router: the port to each node.
routing_table ==
  [r \in Routers |-> LET prev == Tree(r).prev IN [node \in Nodes |->
     IF RouterOf[node] = r THEN PortTo(r, <<"node", node>>)
     ELSE PortTo(r, <<"router", FirstHop(prev, r, RouterOf[node])>>)]]

min_anynet(r, in, f) ==
  {Via(f, IF in = Inject THEN Inject ELSE routing_table[r][f.dest], AllVCs)}
=============================================================================
