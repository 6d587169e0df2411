--------------------------- MODULE BookSimNetwork ---------------------------
(***************************************************************************)
(* BookSim as TSim runs it: TrafficManager (trafficmanager.cpp) at the     *)
(* nodes, routers, and channels with a delay between them.  GeneratePacket *)
(* queues the flits of a packet at its source, Advance is a cycle          *)
(* (_Step).  Packets go through one of the subnets, which share nothing    *)
(* but the queues at the sources.                                          *)
(***************************************************************************)
EXTENDS EventRouter

CONSTANTS
  Packets, Source, Dest, Size,     \* Size[p] flits from Source[p] to Dest[p]
  Offered(_),                      \* bound: the packets for a configuration
  Nodes, RouterIds,
  OutChannelOf(_, _), InChannelOf(_, _),
  Flit,                            \* the flits there may be, with what routing leaves in them
  Route(_, _, _, _),               \* name, router, input, flit: see BookSimRoute
  ChannelDelay,                    \* of channels between routers; others have 1
  MaxDelay                         \* bound: GeneratePacket calls are in the first cycles

Nets == 0..(config.subnets - 1)
Inject == -1

VARIABLES
  partial,             \* _partial_packets: flits at the sources
  node,                \* [buf, last_vc] of a node and a subnet
  router,
  flits, credits,      \* in the channels: [net, chan, due, and flit or credit]
  generated,           \* packets handed over
  retired,             \* flits of a packet that have left the network
  arrived,             \* packets _packet_arrival_callback was called for
  time                 \* _time, in the first cycles; then its parity

vars == <<config, partial, node, router, flits, credits, generated, retired, arrived, time>>

Delay(chan) == IF chan[1] = "chan" THEN ChannelDelay ELSE 1

\* The flits of a packet.  Only the head has the destination; ph and intm are
\* the routing function's.
Flits(p, net) ==
  [i \in 1..Size[p] |->
     [pid |-> p, id |-> i, head |-> i = 1, tail |-> i = Size[p], net |-> net,
      dest |-> IF i = 1 THEN Dest[p] ELSE -1, vc |-> -1, ph |-> -1, intm |-> -1]]

ASSUME FlitAssumption ==
  /\ \A f \in Flit : /\ {"vc", "head", "tail"} \subseteq DOMAIN f
                     /\ f.vc \in VCIds \union {-1}
                     /\ \A vc \in VCIds : [f EXCEPT !.vc = vc] \in Flit
  /\ \A p \in Packets : Source[p] \in Nodes /\ Size[p] \in Nat \ {0}
  /\ \A p \in Packets, c \in Configs : \A net \in 0..(c.subnets - 1) :
        Range(Flits(p, net)) \subseteq Flit

\* A routing function leaves a flit and finitely many outputs, of ports and VCs
\* that there are; at a node it is one.
IsOutput(out) == out.lo \in VCIds /\ out.hi \in VCIds /\ out.pri \in Int

ASSUME RouteAssumption ==
  \A name \in {c.routing_function : c \in Configs}, f \in Flit :
    /\ \A r \in RouterIds, in \in Ports : \A res \in Route(name, r, in, f) :
         /\ res.f \in Flit /\ IsFiniteSet(res.outs)
         /\ \A out \in res.outs : out.port \in Ports /\ IsOutput(out)
    /\ f.head => LET outs == UNION {res.outs : res \in Route(name, -1, Inject, f)}
                 IN outs # {} /\ \A out \in outs : IsOutput(out)

Routes(r, in, f) == Route(config.routing_function, r, in, f)

-----------------------------------------------------------------------------
(* The nodes *)

\* The VC of the head of a packet: the first one after the last that was used
\* that is free and has room; if that is outside of the range, as at the
\* start, the first of the range or none.
ChosenVC(n, range) ==
  LET count == range.hi - range.lo + 1
      vc(i) == IF n.last_vc \in range.lo..range.hi
               THEN range.lo + ((n.last_vc - range.lo + i) % count) ELSE range.lo
      fits(i) == IsAvailableFor(n.buf, vc(i)) /\ ~IsFullFor(n.buf, vc(i))
  IN IF \E i \in 1..count : fits(i)
     THEN vc(CHOOSE i \in 1..count : fits(i) /\ \A j \in 1..(i - 1) : ~fits(j))
     ELSE -1

\* A node offers a subnet the first flit of its queue; next is what the node
\* does: the queue, the state for the subnet and the flit sent.
Injected(queue, n, net) ==
  LET f == Head(queue)
      range == CHOOSE out \in UNION {res.outs : res \in Routes(-1, Inject, f)} : TRUE
      vc == IF f.vc = -1 THEN ChosenVC(n, range) ELSE f.vc
      sent == [f EXCEPT !.vc = vc]
      rest == Tail(queue)
      taken == IF f.head THEN TakeBuffer(n.buf, [v \in {vc} |-> 0]) ELSE n.buf
  IN IF queue = <<>> \/ f.net # net \/ vc = -1 \/ IsFullFor(n.buf, vc)
     THEN [queue |-> queue, node |-> n, sent |-> {}]
     ELSE [queue |-> IF f.tail THEN rest
                     ELSE <<[Head(rest) EXCEPT !.vc = vc]>> \o Tail(rest),
           node |-> [buf |-> SendingFlit(taken, {sent}), last_vc |-> vc],
           sent |-> {sent}]

-----------------------------------------------------------------------------
(* The channels *)

Due(wires, net, chan) == {w \in wires : w.net = net /\ w.chan = chan /\ w.due = 0}

The(S) == CHOOSE x \in S : TRUE

\* What a router receives at its inputs, and from its outputs.
Arrivals(net, r) ==
  [i \in {p \in Ports : Due(flits, net, InChannelOf(r, p)) # {}} |->
     The(Due(flits, net, InChannelOf(r, i))).flit]
Returned(net, r) ==
  [o \in {p \in Ports : Due(credits, net, OutChannelOf(r, p)) # {}} |->
     The(Due(credits, net, OutChannelOf(r, o))).credit]

Ejected(net, n) == {w.flit : w \in Due(flits, net, <<"eject", n>>)}

\* ReadInputs and Evaluate of a router of either kind.
Eventful == config.router = "event"

Queued(rt, arrivals, returned) ==
  IF Eventful THEN EventQueuing(rt, arrivals) ELSE InputQueuing(rt, arrivals, returned)

Stepped(rt, queued, arrivals, returned, routed) ==
  IF Eventful THEN EventStep(queued, arrivals, returned, routed)
  ELSE IF Active(rt, arrivals, returned) THEN Update(queued, routed)
  ELSE rt

\* A cycle moves everything on by one.
Moved(wires) == {[w EXCEPT !.due = @ - 1] : w \in {v \in wires : v.due > 0}}

FlitOn(net, chan, f) == [net |-> net, chan |-> chan, due |-> Delay(chan), flit |-> f]
CreditOn(net, chan, c) == [net |-> net, chan |-> chan, due |-> Delay(chan), credit |-> c]

-----------------------------------------------------------------------------
(* A cycle *)

\* A node with its credits of the cycle.
Credited(net, n) ==
  LET due == Due(credits, net, <<"inject", n>>)
  IN IF due = {} THEN node[net, n]
     ELSE [node[net, n] EXCEPT !.buf = ProcessCredit(@, The(due).credit.vcs)]

InjectedInto(done, n, net) ==
  LET step == Injected(done.queue, Credited(net, n), net)
  IN [queue |-> step.queue,
      nodes |-> Override([m \in {net} |-> step.node], done.nodes),
      sent |-> done.sent \union {FlitOn(net, <<"inject", n>>, f) : f \in step.sent}]

\* A node injects at most a flit per subnet, from one queue: what it has done
\* for the first k subnets.
InjectedAll(n) ==
  LET after[k \in 0..config.subnets] ==
        IF k = 0 THEN [queue |-> partial[n], nodes |-> <<>>, sent |-> {}]
        ELSE InjectedInto(after[k - 1], n, k - 1)
  IN after[config.subnets]

Places == Nets \X RouterIds

\* What leaves the network in this cycle: <<subnet, node, flit>>.
Leaving == UNION {{<<net, n, f>> : f \in Ejected(net, n)} : net \in Nets, n \in Nodes}

EjectionCredits(leaving) ==
  {CreditOn(e[1], <<"eject", e[2]>>, PlainCredit({e[3].vc})) : e \in leaving}

\* _RetireFlit, and its call of _packet_arrival_callback at the tail.
RetiredOf(p, leaving) == retired[p] + Cardinality({e \in leaving : e[3].pid = p})
ArrivedWith(leaving) == {e[3].pid : e \in {d \in leaving : d[3].tail}}

\* RouterNetwork advances the time while packets are under way.
Tick ==
  /\ arrived # generated
  /\ time' = IF time > MaxDelay THEN MaxDelay ELSE time + 1

\* The routers: with what comes in, what can be routed there, and at the end,
\* with chosen, of what the routing function gives.
QueuedAll ==
  [x \in Places |-> Queued(router[x], Arrivals(x[1], x[2]), Returned(x[1], x[2]))]

Results(queued) ==
  [y \in UNION {{<<x, iv>> : iv \in Range(queued[x].route_vcs)} : x \in Places} |->
     Routes(y[1][2], y[2][1], FrontFlit(queued[y[1]], y[2]))]

SteppedAll(queued, chosen) ==
  [x \in Places |->
     Stepped(router[x], queued[x], Arrivals(x[1], x[2]), Returned(x[1], x[2]),
             [iv \in Range(queued[x].route_vcs) |-> chosen[<<x, iv>>]])]

FlitsFrom(x, rt) ==
  {FlitOn(x[1], OutChannelOf(x[2], o), SentFlits(rt)[o]) : o \in DOMAIN SentFlits(rt)}
CreditsFrom(x, rt) ==
  {CreditOn(x[1], InChannelOf(x[2], i), SentCredits(rt)[i]) : i \in DOMAIN SentCredits(rt)}

Advance ==
  /\ Tick
  /\ \E queued \in {Evaluated(QueuedAll)}, inject \in {Evaluated([n \in Nodes |-> InjectedAll(n)])} :
     \E chosen \in OneOfEach(Results(queued)) :
     \E stepped \in {Evaluated(SteppedAll(queued, chosen))} :
       /\ router' = [x \in Places |-> AfterSending(stepped[x])]
       /\ node' = [y \in Nets \X Nodes |-> inject[y[2]].nodes[y[1]]]
       /\ partial' = [n \in Nodes |-> inject[n].queue]
       /\ flits' = Moved(flits) \union (UNION {inject[n].sent : n \in Nodes}) \union
                   UNION {FlitsFrom(x, stepped[x]) : x \in Places}
       /\ credits' = Moved(credits) \union EjectionCredits(Leaving) \union
                     UNION {CreditsFrom(x, stepped[x]) : x \in Places}
       /\ retired' = [p \in Packets |-> RetiredOf(p, Leaving)]
       /\ arrived' = arrived \union ArrivedWith(Leaving)
  /\ UNCHANGED <<config, generated>>

\* RouterNetwork hands a packet over; the subnet is drawn.
GeneratePacket(p) ==
  /\ p \in Offered(config) \ generated /\ time < MaxDelay
  /\ generated' = generated \union {p}
  /\ \E net \in Nets : partial' = [partial EXCEPT ![Source[p]] = @ \o Flits(p, net)]
  /\ UNCHANGED <<config, node, router, flits, credits, retired, arrived, time>>

RouterOfKind == IF Eventful THEN NewEventRouter ELSE NewRouter
NewNode == [buf |-> NewBufferState, last_vc |-> -1]

Init ==
  /\ config \in Configs
  /\ partial = [n \in Nodes |-> <<>>]
  /\ node = [y \in Nets \X Nodes |-> NewNode]
  /\ router = [x \in Places |-> RouterOfKind]
  /\ flits = {} /\ credits = {}
  /\ retired = [p \in Packets |-> 0]
  /\ generated = {} /\ arrived = {} /\ time = 0

Next == Advance \/ \E p \in Packets : GeneratePacket(p)

\* The clock of the simulator goes on: Tick is a step of Advance only, and
\* enabled when Advance is.
Spec == Init /\ [][Next]_vars /\ WF_time(Tick)

-----------------------------------------------------------------------------
\* Between cycles, every flit a sender counts as not credited is on its way,
\* in the buffer behind the channel, or its credit is on its way back; so no
\* input buffer overflows and no count falls below zero.  The errors "Buffer
\* overflow", "Flit buffer overflow" and "Buffer occupancy fell below zero" of
\* buffer_state.cpp and buffer.cpp are about this.
OnChannel(net, chan, vc) ==
  Cardinality({w \in flits : w.net = net /\ w.chan = chan /\ w.flit.vc = vc}) +
  Cardinality({w \in credits : w.net = net /\ w.chan = chan /\ vc \in w.credit.vcs})

BehindChannel(net, chan, vc) ==
  IF chan[1] = "eject" THEN 0
  ELSE LET at == The({rp \in RouterIds \X Ports : InChannelOf(rp[1], rp[2]) = chan})
           rt == router[net, at[1]]
       IN Len(rt.buf[at[2], vc].flits) +
          Len(SelectSeq(rt.credit_buffer[at[2]], LAMBDA c : vc \in c.vcs))

BeforeChannel(rt, o, vc) ==
  Len(SelectSeq(rt.crossbar_flits, LAMBDA x : x.output = o /\ x.f.vc = vc)) +
  Len(SelectSeq(rt.output_buffer[o], LAMBDA f : f.vc = vc))

CreditsMatch ==
  \A net \in Nets, vc \in VCIds :
    /\ \A n \in Nodes :
         LET chan == <<"inject", n>>
             occupancy == node[net, n].buf.occupancy[vc]
         IN /\ occupancy = OnChannel(net, chan, vc) + BehindChannel(net, chan, vc)
            /\ ~Overflows(node[net, n].buf)
    /\ \A r \in RouterIds, o \in Ports :
         LET chan == OutChannelOf(r, o)
             rt == router[net, r]
             occupancy == IF Eventful THEN EventOccupancy(rt, o, vc)
                          ELSE rt.next_buf[o].occupancy[vc]
         IN /\ config.vct \/ occupancy = BeforeChannel(rt, o, vc) + OnChannel(net, chan, vc) +
                                         BehindChannel(net, chan, vc)
            /\ Eventful \/ ~Overflows(rt.next_buf[o])

\* An output VC belongs to the one input VC the packet of which has it, from
\* the allocation until the tail is sent; so packets are never mixed in a VC
\* ("Buffer taken while in use", "Received flit with unexpected packet ID"),
\* and the flits of a packet come out whole, in order, at its destination
\* ("arrived at incorrect output", and the look-up of the head in
\* _RetireFlit).
InOrder(q) ==
  \A i \in 1..(Len(q) - 1) :
    IF q[i].tail THEN q[i + 1].head ELSE q[i + 1].pid = q[i].pid /\ q[i + 1].id = q[i].id + 1

WholePackets ==
  /\ \A x \in Places :
       LET rt == router[x]
       IN /\ IF Eventful THEN EventsMatch(rt)
             ELSE \A o \in Ports, vc \in VCIds :
               {iv \in InVCs : /\ rt.buf[iv].state = "active"
                               /\ rt.buf[iv].out_port = o /\ rt.buf[iv].out_vc = vc} =
               {iv \in InVCs : /\ rt.next_buf[o].in_use_by[vc] = iv[1] * NumVCs + iv[2]
                               /\ vc \notin rt.next_buf[o].tail_sent}
          /\ \A iv \in InVCs : InOrder(rt.buf[iv].flits)
  /\ \A net \in Nets, n \in Nodes : \A f \in Ejected(net, n) :
       n = Dest[f.pid] /\ f.id = retired[f.pid] + 1

\* The assertion in _SwitchUpdate: an output buffer exceeds its size at most
\* by what is in the crossbar and what enters it with it.
OutputBufferBound ==
  \A x \in Places, o \in Ports :
    Len(router[x].output_buffer[o]) + Len(Selected(router[x].crossbar_flits, Toward(router[x], o))) <=
      OutputBufferSize + 2 * config.output_speedup - 1

\* Whatever happens in the network, it is one that delivers every packet once,
\* at most one per subnet and cycle at a node; RouterNetwork::Operation, which
\* assumes this of it, calls for eight cycles.
PN == INSTANCE PacketNetwork WITH
  DestOf <- Dest, MaxArrivals <- Max({c.subnets : c \in Configs}), under_way <- generated \ arrived

ImplementsPacketNetwork == PN!Spec
=============================================================================
