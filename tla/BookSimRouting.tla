--------------------------- MODULE BookSimRouting ---------------------------
(***************************************************************************)
(* Packets under the routing functions of BookSim, one network at a time.  *)
(* First, the walk of a single packet, with every outcome of the random    *)
(* draws and of the choices between outputs and VCs that are free.         *)
(* Second, what a full network does: the head of a packet waits in its     *)
(* buffer (input port and VC of a router) for any of the VCs it asks for,  *)
(* and a buffer drains if whatever can be at its head finds one of them in *)
(* a buffer that drains.                                                   *)
(***************************************************************************)
EXTENDS Integers, FiniteSets

CONSTANTS
  Networks,            \* topologies with a routing function
  Waiting,             \* those of which full networks are looked at
  RoutersOf(_), PortsOf(_, _), VCsOf(_),
  SourcesOf(_), DestsOf(_),
  NodeHome(_, _),        \* router and port of a node
  OutChannelOf(_, _, _), InChannelOf(_, _, _),
  Route(_, _, _, _)    \* the routing function, see BookSimRoute

VARIABLES net, mode, packet, drained
vars == <<net, mode, packet, drained>>

Arrived == <<-1, -1>>
Lost == <<-2, -2>>
Ejected == <<-1, -1, -1>>

\* The routers and their ports.
Places == [x \in Networks |-> UNION {{<<r, p>> : p \in PortsOf(x, r)} : r \in RoutersOf(x)}]
Sources == [x \in Networks |-> [s \in Places[x] |-> InChannelOf(x, s[1], s[2])]]

\* The places a channel leads to: one, in a well-built network.
Sinks == [x \in Networks |-> [s \in Places[x] |->
            {t \in Places[x] : Sources[x][t] = OutChannelOf(x, s[1], s[2])}]]

IsEjection(x, r, p) == OutChannelOf(x, r, p)[1] = "eject"

\* Where an output leads; Lost if nowhere.
Sink(x, r, p) ==
  IF p \notin PortsOf(x, r) \/ (~IsEjection(x, r, p) /\ Sinks[x][<<r, p>>] = {}) THEN Lost
  ELSE IF IsEjection(x, r, p) THEN Arrived
  ELSE CHOOSE s \in Sinks[x][<<r, p>>] : TRUE

\* The places [at, f] where a packet can be next; at is router and port.
Moves(x, place, result) ==
  UNION {{[at |-> Sink(x, place.at[1], out.port), f |-> [result.f EXCEPT !.vc = vc]] :
          vc \in out.lo..out.hi} : out \in result.outs}

RouteAt(x, place) == Route(x, place.at[1], place.at[2], place.f)

\* A packet as Flit::New leaves it, with the VCs TrafficManager may choose from.
Injected(x, src, dest) ==
  LET f == [dest |-> dest, intm |-> -1, ph |-> -1, vc |-> -1]
      offers == UNION {res.outs : res \in Route(x, NodeHome(x, src)[1], -1, f)}
  IN UNION {{[at |-> NodeHome(x, src), f |-> [f EXCEPT !.vc = vc]] : vc \in out.lo..out.hi} :
            out \in offers}

Injections == [x \in Networks |-> UNION {Injected(x, s, d) : s \in SourcesOf(x), d \in DestsOf(x)}]

RECURSIVE Reachable(_, _, _)
Reachable(x, seen, new) ==
  IF new = {} THEN seen
  ELSE LET next == UNION {UNION {Moves(x, h, res) : res \in RouteAt(x, h)} : h \in new}
           fresh == {h \in next : h.at \notin {Arrived, Lost}} \ seen
       IN Reachable(x, seen \union fresh, fresh)

\* The results of the routing function at all places of packets on their way.
Results == [x \in Networks |->
              [h \in Reachable(x, Injections[x], Injections[x]) |-> RouteAt(x, h)]]

-----------------------------------------------------------------------------
(* A full network *)

Buffer(place) == IF place.at = Arrived THEN Ejected ELSE <<place.at[1], place.at[2], place.f.vc>>

\* What the heads of packets can wait for: the buffer they are in, and those
\* a VC of which they ask for.
Waits == [x \in Waiting |->
  UNION {{<<Buffer(h), {Buffer(g) : g \in Moves(x, h, res)}>> : res \in Results[x][h]} :
         h \in DOMAIN Results[x]}]

Buffers == [x \in Waiting |-> {w[1] : w \in Waits[x]}]

-----------------------------------------------------------------------------
Init ==
  /\ drained = {Ejected}
  /\ \/ mode = "one packet" /\ net \in Networks /\ packet \in Injections[net]
     \/ mode = "full network" /\ net \in Waiting /\ packet = [at |-> Arrived]

\* The packet leaves its router by an output and a VC of the route set.
Hop ==
  /\ mode = "one packet" /\ packet.at \notin {Arrived, Lost}
  /\ \E res \in Results[net][packet] : packet' \in Moves(net, packet, res)
  /\ UNCHANGED <<net, mode, drained>>

\* Buffers drain every possible head of which gets a VC.
Drain ==
  /\ mode = "full network"
  /\ \E waits \in {Waits[net]} :
       LET blocked == {w[1] : w \in {v \in waits : v[2] \intersect drained = {}}}
       IN drained' = drained \union ({w[1] : w \in waits} \ blocked)
  /\ drained' # drained
  /\ UNCHANGED <<net, mode, packet>>

Next == Hop \/ Drain

Spec == Init /\ [][Next]_vars /\ WF_vars(Hop) /\ WF_vars(Drain)

-----------------------------------------------------------------------------
\* Every function offers the packet at least one output; the output is wired
\* to one input, its VCs exist, and the node a packet is handed to is its
\* destination.
LegalRoute ==
  mode = "one packet" /\ packet.at \notin {Arrived, Lost} =>
    \A res \in Results[net][packet] :
      /\ res.outs # {}
      /\ \A out \in res.outs :
           /\ 0 <= out.lo /\ out.lo <= out.hi /\ out.hi < VCsOf(net)
           /\ out.port \in PortsOf(net, packet.at[1])
           /\ IF IsEjection(net, packet.at[1], out.port)
              THEN OutChannelOf(net, packet.at[1], out.port)[2] = packet.f.dest
              ELSE Cardinality(Sinks[net][<<packet.at[1], out.port>>]) = 1

\* Every packet arrives, whatever is drawn and chosen on its way.
Arrives == <>(mode = "one packet" => packet.at = Arrived)

\* No set of packets can wait for each other in a circle.
NoCircularWait == <>(mode = "full network" => Buffers[net] \subseteq drained)
=============================================================================
