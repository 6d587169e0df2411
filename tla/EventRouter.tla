----------------------------- MODULE EventRouter -----------------------------
(***************************************************************************)
(* The event-driven router of BookSim (routers/event_router.cpp).  A flit  *)
(* that comes in is an arrival event, which asks the output of its packet  *)
(* for its VC; an output that has a credit for it makes a transport event, *)
(* which asks the input for a flit.  An output VC belongs to a packet      *)
(* until the credit of its tail is back; the heads of others wait for it.  *)
(*                                                                         *)
(* In cut-through mode ("vct") there are events for packets only, and a    *)
(* credit is room for a packet.                                            *)
(***************************************************************************)
EXTENDS IQRouter

\* An output VC: the packets that wait for it with the flits they have here,
\* and of the packet that owns it the flits that wait for a credit.
OutVC == [state |-> "idle", credits |-> VCBufSize, presence |-> 0, owner |-> <<0, 0>>,
          waiting |-> <<>>]

NewEventRouter ==
  [buf |-> [iv \in InVCs |-> IdleVC],
   out |-> [o \in Ports |-> [vcs |-> [vc \in VCIds |-> OutVC], transport_queue |-> <<>>,
                             rr_ptr |-> 0]],
   route_vcs |-> <<>>,
   arrival_queue |-> [i \in Ports |-> <<>>],
   transport_match |-> [i \in Ports |-> -1],
   transport_rr |-> [i \in Ports |-> 0],
   crossbar_flits |-> <<>>,
   output_buffer |-> [o \in Ports |-> <<>>],
   credit_buffer |-> [i \in Ports |-> <<>>]]

-----------------------------------------------------------------------------
(* Flits that come in *)

\* A head has to find its VC inactive, and nothing else may.
EventQueuing(rt, arrivals) ==
  LET iv_of(i) == <<i, arrivals[i].vc>>
      routed(i) == rt.buf[iv_of(i)].state = "idle"
      next(i) == IF routed(i) # arrivals[i].head THEN "error"
                 ELSE IF routed(i) THEN "routing" ELSE "active"
      heads == PortsIn({i \in DOMAIN arrivals : routed(i)})
  IN [rt EXCEPT
       !.buf = Override([iv \in {iv_of(i) : i \in DOMAIN arrivals} |->
                  [rt.buf[iv] EXCEPT !.flits = Append(@, arrivals[iv[1]]),
                                     !.state = next(iv[1])]], @),
       !.route_vcs = [k \in DOMAIN heads |-> iv_of(heads[k])]]

\* The routing function has to give one output port and VC.
Routed(rt, routed) ==
  LET only(outs) == CHOOSE out \in outs : TRUE
      fits(outs) == Cardinality(outs) = 1 /\ only(outs).lo = only(outs).hi
  IN [rt EXCEPT
       !.buf = Override([iv \in DOMAIN routed |->
                  [flits |-> <<routed[iv].f>> \o Tail(rt.buf[iv].flits), route_set |-> {},
                   state |-> IF fits(routed[iv].outs) THEN "active" ELSE "error",
                   out_port |-> only(routed[iv].outs).port,
                   out_vc |-> only(routed[iv].outs).lo]], @),
       !.route_vcs = <<>>]

\* The arrival events of the flits.
Arrived(rt, arrivals) ==
  LET event(i) == [iv |-> <<i, arrivals[i].vc>>, head |-> arrivals[i].head,
                   output |-> rt.buf[i, arrivals[i].vc].out_port,
                   vc |-> rt.buf[i, arrivals[i].vc].out_vc]
  IN [rt EXCEPT !.arrival_queue = [i \in Ports |->
        IF i \in DOMAIN arrivals /\ (config.vct => arrivals[i].head) THEN Append(@[i], event(i))
        ELSE @[i]]]

-----------------------------------------------------------------------------
(* The outputs: out is [vcs, transport_queue, rr_ptr]. *)

SendTransport(out, vc, iv) ==
  IF out.vcs[vc].credits > 0
  THEN [out EXCEPT !.vcs[vc].credits = @ - 1,
                   !.transport_queue = Append(@, [iv |-> iv, vc |-> vc])]
  ELSE [out EXCEPT !.vcs[vc].presence = @ + 1]

\* The VC is free: the first packet that waits gets it, and sends one flit; the
\* others follow with the credits that come back.
ProcessWaiting(out, vc) ==
  LET v == out.vcs[vc]
      w == Head(v.waiting)
      taken == [out EXCEPT !.vcs[vc] = [v EXCEPT !.state = "busy", !.owner = w.iv,
                                                 !.presence = w.pres - 1, !.waiting = Tail(@)]]
  IN IF v.waiting = <<>> THEN [out EXCEPT !.vcs[vc].state = "idle"]
     ELSE SendTransport(taken, vc, w.iv)

Failed(out, vc) == [out EXCEPT !.vcs[vc].state = "error"]

\* The credit of a tail frees the VC, another one is for a flit that waits.  In
\* cut-through mode only credits of heads count.
CreditArrived(out, credit) ==
  LET vc == CHOOSE x \in credit.vcs : TRUE
      v == out.vcs[vc]
      counted == [out EXCEPT !.vcs[vc].credits = @ + 1]
  IN IF config.vct THEN IF credit.head THEN ProcessWaiting(counted, vc) ELSE out
     ELSE IF credit.tail
     THEN IF v.state = "busy" THEN ProcessWaiting(counted, vc) ELSE Failed(out, vc)
     ELSE IF v.state = "busy" /\ v.presence > 0
     THEN SendTransport([counted EXCEPT !.vcs[vc].presence = @ - 1], vc, v.owner)
     ELSE counted

\* Where a packet of input VC iv waits (IsInputWaiting, IncrWaiting).
WaitingAt(v, iv) == {k \in DOMAIN v.waiting : v.waiting[k].iv = iv}

\* A head takes an idle VC or waits.  Another flit is of the packet that owns
\* the VC, unless a packet from the same input VC waits: then it is of that.
ArrivalEvent(out, e) ==
  LET v == out.vcs[e.vc]
      waits == WaitingAt(v, e.iv)
  IN IF e.head
     THEN IF v.state = "idle"
          THEN SendTransport([out EXCEPT !.vcs[e.vc].state = "busy", !.vcs[e.vc].owner = e.iv],
                             e.vc, e.iv)
          ELSE [out EXCEPT !.vcs[e.vc].waiting = Append(@, [iv |-> e.iv, pres |-> 1])]
     ELSE IF v.state = "busy" /\ waits = {} /\ v.owner = e.iv THEN SendTransport(out, e.vc, e.iv)
     ELSE IF v.state = "busy" /\ waits # {}
     THEN [out EXCEPT !.vcs[e.vc].waiting[Min(waits)].pres = @ + 1]
     ELSE Failed(out, e.vc)

\* PriorityArbiter, all requests of which have the same priority: round robin.
Arbitrate(requests, rr_ptr) == FirstFrom(requests, rr_ptr, NumPorts)

\* Every output takes a credit, then an arrival event.
ArrivalArb(rt, credits) ==
  LET asking(o) == {i \in Ports : /\ rt.arrival_queue[i] # <<>>
                                  /\ Head(rt.arrival_queue[i]).output = o}
      input(o) == Arbitrate(asking(o), rt.out[o].rr_ptr)
      won == {input(o) : o \in {p \in Ports : asking(p) # {}}}
      credited(o) == IF o \in DOMAIN credits THEN CreditArrived(rt.out[o], credits[o])
                     ELSE rt.out[o]
  IN [rt EXCEPT
       !.out = [o \in Ports |->
          IF asking(o) = {} THEN credited(o)
          ELSE [ArrivalEvent(credited(o), Head(rt.arrival_queue[input(o)]))
                  EXCEPT !.rr_ptr = (input(o) + 1) % NumPorts]],
       !.arrival_queue = [i \in Ports |-> IF i \in won THEN Tail(@[i]) ELSE @[i]]]

-----------------------------------------------------------------------------
(* The inputs *)

EventFor(rt, o) == Head(rt.out[o].transport_queue)

\* The output an input serves: in cut-through mode the same until the tail.
Match(rt, i) ==
  LET asking == {o \in Ports : rt.out[o].transport_queue # <<>> /\ EventFor(rt, o).iv[1] = i}
  IN IF rt.transport_match[i] # -1 THEN rt.transport_match[i]
     ELSE IF asking = {} THEN -1 ELSE Arbitrate(asking, rt.transport_rr[i])

\* served[i] is the output of input i; the inputs of going have a flit for it.
Transport(rt, served, going) ==
  LET iv_of(i) == EventFor(rt, served[i]).iv
      flit(i) == FrontFlit(rt, iv_of(i))
      done(i) == config.vct => flit(i).tail
      left(v) == LET rest == Tail(v.flits)
                 IN IF Head(v.flits).tail THEN [IdleVC EXCEPT !.flits = rest]
                    ELSE [v EXCEPT !.flits = rest]
      into(o) == CHOOSE i \in going : served[i] = o
      outputs == PortsIn({served[i] : i \in going})
  IN [rt EXCEPT
       !.buf = Override([iv \in {iv_of(i) : i \in going} |-> left(rt.buf[iv])], @),
       !.out = Override([o \in {served[i] : i \in {j \in going : done(j)}} |->
                           [rt.out[o] EXCEPT !.transport_queue = Tail(@)]], @),
       !.transport_match = Override([i \in going |-> IF done(i) THEN -1 ELSE served[i]], @),
       !.transport_rr = Override([i \in {j \in DOMAIN served : rt.transport_match[j] = -1} |->
                                    (served[i] + 1) % NumPorts], @),
       !.crossbar_flits = [k \in DOMAIN outputs |->
          [f |-> [flit(into(outputs[k])) EXCEPT !.vc = rt.buf[iv_of(into(outputs[k]))].out_vc],
           output |-> outputs[k]]],
       !.credit_buffer = Override([i \in going |->
          Append(rt.credit_buffer[i], [vcs |-> {flit(i).vc}, head |-> flit(i).head,
                                       tail |-> flit(i).tail])], @)]

\* In cut-through mode an input waits for the flits of its packet.
TransportServed(rt, served) ==
  Transport(rt, served, {i \in DOMAIN served : rt.buf[EventFor(rt, served[i]).iv].flits # <<>>})

TransportArb(rt) ==
  TransportServed(rt, Evaluated([i \in {j \in Ports : Match(rt, j) # -1} |-> Match(rt, i)]))

\* _InternalStep of a router that has queued its flits.  The flits that were in
\* the crossbar go to the outputs.
EventStep(rt, arrivals, credits, routed) ==
  TransportArb(ArrivalArb(Arrived(Routed(SwitchUpdate(rt), routed), arrivals), credits))

-----------------------------------------------------------------------------
\* What a flit that was sent has to be counted as, with those for which there
\* is a transport event.
EventOccupancy(rt, o, vc) ==
  VCBufSize - rt.out[o].vcs[vc].credits -
    Len(SelectSeq(rt.out[o].transport_queue, LAMBDA e : e.vc = vc))

\* No Error of the router: one packet at a time in an input VC, the events of
\* an output for the VCs that have it, with a flit each.
EventsMatch(rt) ==
  /\ \A i \in Ports :
       FoldFunction(+, 0, [vc \in VCIds |-> Len(rt.buf[i, vc].flits)]) <= NumVCs * VCBufSize
  /\ \A iv \in InVCs : /\ rt.buf[iv].state # "error"
                       /\ Cardinality({f.pid : f \in Range(rt.buf[iv].flits)}) <= 1
  /\ \A o \in Ports, vc \in VCIds :
       LET events(iv) == SelectSeq(rt.out[o].transport_queue, LAMBDA e : e.iv = iv /\ e.vc = vc)
       IN /\ rt.out[o].vcs[vc].state # "error"
          /\ \A iv \in InVCs : events(iv) # <<>> =>
               /\ rt.buf[iv].state = "active"
               /\ rt.buf[iv].out_port = o /\ rt.buf[iv].out_vc = vc
               /\ ~config.vct => Len(events(iv)) <= Len(rt.buf[iv].flits)
=============================================================================
