--------------------------- MODULE BookSimProofs ---------------------------
(***************************************************************************)
(* Proofs about the BookSim network: no output buffer of a router ever     *)
(* holds more than _SwitchUpdate asserts, whichever routers the network    *)
(* has and whatever they are sent.                                         *)
(***************************************************************************)
EXTENDS IQRouterProofs

\* The event router, where at most one flit at a time is for an output.
EventInv(rt) ==
  /\ "crossbar_flits" \in DOMAIN rt /\ "output_buffer" \in DOMAIN rt
  /\ DOMAIN rt.output_buffer = Ports
  /\ \E S : rt.crossbar_flits \in Seq(S)
  /\ \A o \in Ports : /\ \E S : rt.output_buffer[o] \in Seq(S)
                      /\ Len(rt.output_buffer[o]) + CrossingTo(rt, o) <= 1

\* The flits at a node: whole packets, but for what was sent of the first one.
Whole(queue) ==
  /\ queue \in Seq(Flit)
  /\ \A i \in 1..(Len(queue) - 1) : queue[i].tail => queue[i + 1].head
  /\ queue # <<>> => queue[Len(queue)].tail /\ (queue[1].head \/ queue[1].vc \in VCIds)

\* The inductive invariant of the network.
NetworkInv ==
  /\ config \in Configs
  /\ DOMAIN router = Places
  /\ \A x \in Places : IF Eventful THEN EventInv(router[x]) ELSE RouterInv(router[x])
  /\ ~Eventful => \A w \in flits : w.flit \in SentFlit
  /\ DOMAIN partial = Nodes /\ \A n \in Nodes : Whole(partial[n])

-----------------------------------------------------------------------------
\* The event router.

\* What the routing of the event router changes.
LEMMA EventRouted ==
  ASSUME NEW rt, NEW routed, NEW q, q = Routed(rt, routed)
  PROVE  /\ DOMAIN q = DOMAIN rt
         /\ \A k \in DOMAIN rt : k \notin {"buf", "route_vcs"} => q[k] = rt[k]
<1> DEFINE only(outs) == CHOOSE out \in outs : TRUE
           fits(outs) == Cardinality(outs) = 1 /\ only(outs).lo = only(outs).hi
           new == [iv \in DOMAIN routed |->
                  [flits |-> <<routed[iv].f>> \o Tail(rt.buf[iv].flits), route_set |-> {},
                   state |-> IF fits(routed[iv].outs) THEN "active" ELSE "error",
                   out_port |-> only(routed[iv].outs).port,
                   out_vc |-> only(routed[iv].outs).lo]]
           s == [rt EXCEPT !.buf = Override(new, @), !.route_vcs = <<>>]
<1>1. q = s
  BY Zenon DEF Routed
<1> HIDE DEF new
<1>2. /\ DOMAIN s = DOMAIN rt
      /\ \A k \in DOMAIN rt : k \notin {"buf", "route_vcs"} => s[k] = rt[k]
  OBVIOUS
<1> HIDE DEF s
<1> QED BY <1>1, <1>2

\* What the arrivals of the event router change.
LEMMA EventArrived ==
  ASSUME NEW rt, NEW arrivals, NEW q, q = Arrived(rt, arrivals)
  PROVE  /\ DOMAIN q = DOMAIN rt
         /\ \A k \in DOMAIN rt : k # "arrival_queue" => q[k] = rt[k]
<1> DEFINE event(i) == [iv |-> <<i, arrivals[i].vc>>, head |-> arrivals[i].head,
                   output |-> rt.buf[i, arrivals[i].vc].out_port,
                   vc |-> rt.buf[i, arrivals[i].vc].out_vc]
           new == [i \in Ports |->
                    IF i \in DOMAIN arrivals /\ (config.vct => arrivals[i].head)
                    THEN Append(rt.arrival_queue[i], event(i)) ELSE rt.arrival_queue[i]]
           s == [rt EXCEPT !.arrival_queue = new]
<1>1. q = s
  BY Zenon DEF Arrived
<1> HIDE DEF new
<1>2. DOMAIN s = DOMAIN rt /\ \A k \in DOMAIN rt : k # "arrival_queue" => s[k] = rt[k]
  OBVIOUS
<1> HIDE DEF s
<1> QED BY <1>1, <1>2

\* What the arrival arbitration of the event router changes.
LEMMA EventArbitrated ==
  ASSUME NEW rt, NEW returned, NEW q, q = ArrivalArb(rt, returned)
  PROVE  /\ DOMAIN q = DOMAIN rt
         /\ \A k \in DOMAIN rt : k \notin {"out", "arrival_queue"} => q[k] = rt[k]
<1> DEFINE asking(o) == {i \in Ports : /\ rt.arrival_queue[i] # <<>>
                                  /\ Head(rt.arrival_queue[i]).output = o}
           input(o) == Arbitrate(asking(o), rt.out[o].rr_ptr)
           won == {input(o) : o \in {p \in Ports : asking(p) # {}}}
           credited(o) == IF o \in DOMAIN returned THEN CreditArrived(rt.out[o], returned[o])
                          ELSE rt.out[o]
           outs == [o \in Ports |->
              IF asking(o) = {} THEN credited(o)
              ELSE [ArrivalEvent(credited(o), Head(rt.arrival_queue[input(o)]))
                      EXCEPT !.rr_ptr = (input(o) + 1) % NumPorts]]
           queue == [i \in Ports |-> IF i \in won THEN Tail(rt.arrival_queue[i]) ELSE rt.arrival_queue[i]]
           s == [rt EXCEPT !.out = outs, !.arrival_queue = queue]
<1>1. q = s
  BY Zenon DEF ArrivalArb
<1> HIDE DEF outs, queue
<1>2. /\ DOMAIN s = DOMAIN rt
      /\ \A k \in DOMAIN rt : k \notin {"out", "arrival_queue"} => s[k] = rt[k]
  OBVIOUS
<1> HIDE DEF s
<1> QED BY <1>1, <1>2

\* At most one flit goes to an output.
OnePerOutput(cf) ==
  /\ \E S : cf \in Seq(S)
  /\ \A i, j \in DOMAIN cf : cf[i].output = cf[j].output => i = j

\* The transport of the event router lets one flit cross to an output.
LEMMA EventTransported ==
  ASSUME NEW rt, "crossbar_flits" \in DOMAIN rt,
         NEW served, NEW going, NEW q, q = Transport(rt, served, going)
  PROVE  /\ DOMAIN q = DOMAIN rt /\ OnePerOutput(q.crossbar_flits)
         /\ "output_buffer" \in DOMAIN rt => q.output_buffer = rt.output_buffer
<1> DEFINE
      iv_of(i) == EventFor(rt, served[i]).iv
      flit(i) == FrontFlit(rt, iv_of(i))
      done(i) == config.vct => flit(i).tail
      left(v) == LET rest == Tail(v.flits)
                 IN IF Head(v.flits).tail THEN [IdleVC EXCEPT !.flits = rest]
                    ELSE [v EXCEPT !.flits = rest]
      into(o) == CHOOSE i \in going : served[i] = o
      outputs == PortsIn({served[i] : i \in going})
      sent(k) == [flit(into(outputs[k])) EXCEPT !.vc = rt.buf[iv_of(into(outputs[k]))].out_vc]
      cf == [k \in DOMAIN outputs |-> [f |-> sent(k), output |-> outputs[k]]]
      bufs == [iv \in {iv_of(i) : i \in going} |-> left(rt.buf[iv])]
      outs == [o \in {served[i] : i \in {j \in going : done(j)}} |->
                           [rt.out[o] EXCEPT !.transport_queue = Tail(@)]]
      matches == [i \in going |-> IF done(i) THEN -1 ELSE served[i]]
      turns == [i \in {j \in DOMAIN served : rt.transport_match[j] = -1} |-> (served[i] + 1) % NumPorts]
      cbs == [i \in going |-> Append(rt.credit_buffer[i], [vcs |-> {flit(i).vc}, head |-> flit(i).head,
                                       tail |-> flit(i).tail])]
      s == [rt EXCEPT !.buf = Override(bufs, @), !.out = Override(outs, @),
                      !.transport_match = Override(matches, @),
                      !.transport_rr = Override(turns, @),
                      !.crossbar_flits = cf,
                      !.credit_buffer = Override(cbs, @)]
<1>1. q = s
  BY Zenon DEF Transport
<1>2. IsList(outputs, Ports)
  BY PortsInList
<1> HIDE DEF bufs, outs, matches, turns, cbs, outputs, sent
<1>3. DOMAIN outputs = 1..Len(outputs) /\ Len(outputs) \in Nat
  BY <1>2 DEF IsList
<1>4. \A i, j \in DOMAIN outputs : outputs[i] = outputs[j] => i = j
  BY <1>2 DEF IsList
<1>5. OnePerOutput(cf)
  <2>1. cf \in Seq({cf[k] : k \in DOMAIN outputs})
    <3> DEFINE g(k) == [f |-> sent(k), output |-> outputs[k]]
    <3> HIDE DEF g
    <3>1. [k \in DOMAIN outputs |-> g(k)] \in Seq({g(k) : k \in DOMAIN outputs})
      BY <1>3
    <3>2. {cf[k] : k \in DOMAIN outputs} = {g(k) : k \in DOMAIN outputs}
      BY DEF g
    <3> QED BY <3>1, <3>2 DEF g
  <2>2. \A i, j \in DOMAIN cf : cf[i].output = cf[j].output => i = j
    BY <1>4
  <2> HIDE DEF cf
  <2>3. \E S : cf \in Seq(S)
    BY <2>1
  <2> QED BY <2>2, <2>3, Zenon DEF OnePerOutput
<1> HIDE DEF cf
<1>6. /\ DOMAIN s = DOMAIN rt /\ s.crossbar_flits = cf
      /\ "output_buffer" \in DOMAIN rt => s.output_buffer = rt.output_buffer
  OBVIOUS
<1> HIDE DEF s
<1> QED BY <1>1, <1>5, <1>6

\* With one flit for an output in the crossbar, one crosses to it at most.
LEMMA OneToward ==
  ASSUME NEW rt, OnePerOutput(rt.crossbar_flits), NEW o
  PROVE  CrossingTo(rt, o) \in 0..1
<1> DEFINE cf == rt.crossbar_flits
           at == {i \in 1..Len(cf) : cf[i] \in Toward(rt, o)}
<1>1. PICK S : cf \in Seq(S)
  BY Zenon DEF OnePerOutput
<1>2. CrossingTo(rt, o) = Cardinality(at)
  BY <1>1, SelectedCount DEF CrossingTo
<1>3. DOMAIN cf = 1..Len(cf)
  BY <1>1
<1>4. \A i \in at : i \in DOMAIN cf /\ cf[i].output = o
  BY <1>3, Zenon DEF Toward
<1>5. \A i, j \in at : i = j
  BY <1>4 DEF OnePerOutput
<1> HIDE DEF at
<1>6. CASE at = {}
  BY <1>2, <1>6, FS_EmptySet
<1>7. CASE at # {}
  <2>1. PICK i : i \in at
    BY <1>7
  <2>2. at = {i}
    BY <1>5, <2>1
  <2>3. Cardinality({i}) = 1
    BY FS_Singleton
  <2> QED BY <1>2, <2>2, <2>3
<1> QED BY <1>6, <1>7

\* The invariant of the event router is about its crossbar and output buffers.
LEMMA EventInvIs ==
  ASSUME NEW rt, NEW q, EventInv(rt), DOMAIN q = DOMAIN rt,
         q.crossbar_flits = rt.crossbar_flits, q.output_buffer = rt.output_buffer
  PROVE  EventInv(q)
<1>1. \A o \in Ports : CrossingTo(q, o) = CrossingTo(rt, o)
  BY CrossingSame
<1> QED BY <1>1, Zenon DEF EventInv

\* Taking flits in keeps the invariant of the event router.
LEMMA EventQueuedKept ==
  ASSUME NEW rt, EventInv(rt), NEW arrivals
  PROVE  EventInv(EventQueuing(rt, arrivals))
<1> DEFINE q == EventQueuing(rt, arrivals)
<1>1. /\ DOMAIN q = DOMAIN rt
      /\ \A k \in DOMAIN rt : k \notin {"buf", "route_vcs"} => q[k] = rt[k]
  BY EventQueued
<1> HIDE DEF q
<1>2. "crossbar_flits" \in DOMAIN rt /\ "output_buffer" \in DOMAIN rt
  BY DEF EventInv
<1>3. q.crossbar_flits = rt.crossbar_flits /\ q.output_buffer = rt.output_buffer
  BY <1>1, <1>2
<1> QED BY <1>1, <1>3, EventInvIs DEF q

\* A cycle of the event router keeps its invariant.
LEMMA EventStepKept ==
  ASSUME NEW rt, EventInv(rt), NEW arrivals, NEW returned, NEW routed
  PROVE  EventInv(AfterSending(EventStep(rt, arrivals, returned, routed)))
<1> DEFINE r1 == SwitchUpdate(rt)
           r2 == Routed(r1, routed)
           r3 == Arrived(r2, arrivals)
           r4 == ArrivalArb(r3, returned)
           served == Evaluated([i \in {j \in Ports : Match(r4, j) # -1} |-> Match(r4, i)])
           going == {i \in DOMAIN served : r4.buf[EventFor(r4, served[i]).iv].flits # <<>>}
           r5 == Transport(r4, served, going)
           r6 == AfterSending(r5)
<1>1. EventStep(rt, arrivals, returned, routed) = r5
  <2>1. TransportArb(r4) = r5
    <3>1. TransportArb(r4) = TransportServed(r4, served)
      BY Zenon DEF TransportArb
    <3> HIDE DEF r4
    <3>2. TransportServed(r4, served) = Transport(r4, served, going)
      <4> HIDE DEF served
      <4> QED BY Zenon DEF TransportServed, going
    <3> QED BY <3>1, <3>2
  <2>2. EventStep(rt, arrivals, returned, routed) = TransportArb(r4)
    BY Zenon DEF EventStep
  <2> QED BY <2>1, <2>2
<1>2. "crossbar_flits" \in DOMAIN rt /\ "output_buffer" \in DOMAIN rt /\ DOMAIN rt.output_buffer = Ports
  BY DEF EventInv
<1>3. DOMAIN r1 = DOMAIN rt
  <2> DEFINE crossed(o) == Selected(rt.crossbar_flits, Toward(rt, o))
             arriving(list) == [i \in DOMAIN list |-> list[i].f]
             buffers == Evaluated([o \in Ports |-> rt.output_buffer[o] \o arriving(crossed(o))])
  <2>1. r1 = [rt EXCEPT !.output_buffer = buffers, !.crossbar_flits = <<>>]
    BY Zenon DEF SwitchUpdate
  <2> HIDE DEF r1, buffers
  <2> QED BY <2>1
<1>4. ASSUME NEW o \in Ports
      PROVE  \E T : /\ r1.output_buffer[o] \in Seq(T)
                    /\ Len(r1.output_buffer[o]) <= 1
  <2>1. PICK S : rt.crossbar_flits \in Seq(S)
    BY Zenon DEF EventInv
  <2>2. PICK U : rt.output_buffer[o] \in Seq(U)
    BY Zenon DEF EventInv
  <2> DEFINE T == U \union {x.f : x \in S}
  <2>3. rt.output_buffer[o] \in Seq(T)
    <3>1. U \subseteq T
      OBVIOUS
    <3> HIDE DEF T
    <3> QED BY <2>2, <3>1
  <2>4. \A x \in S : x.f \in T
    OBVIOUS
  <2> HIDE DEF T
  <2>5. r1.output_buffer[o] \in Seq(T)
    BY <1>2, <2>1, <2>3, <2>4, SwitchedBuffers, Zenon
  <2>6. Len(r1.output_buffer[o]) = Len(rt.output_buffer[o]) + CrossingTo(rt, o)
    BY <1>2, <2>1, <2>3, <2>4, SwitchedBuffers, Zenon
  <2>7. Len(rt.output_buffer[o]) + CrossingTo(rt, o) <= 1
    BY DEF EventInv
  <2> QED BY <2>5, <2>6, <2>7
<1> HIDE DEF r1, r2, r3, r4, served, going, r5, r6
<1>5. /\ DOMAIN r2 = DOMAIN r1 /\ \A k \in DOMAIN r1 : k \notin {"buf", "route_vcs"} => r2[k] = r1[k]
  BY EventRouted DEF r2
<1>6. /\ DOMAIN r3 = DOMAIN r2 /\ \A k \in DOMAIN r2 : k # "arrival_queue" => r3[k] = r2[k]
  BY EventArrived DEF r3
<1>7. /\ DOMAIN r4 = DOMAIN r3 /\ \A k \in DOMAIN r3 : k \notin {"out", "arrival_queue"} => r4[k] = r3[k]
  BY EventArbitrated DEF r4
<1>8. DOMAIN r4 = DOMAIN rt /\ r4.output_buffer = r1.output_buffer
  BY <1>2, <1>3, <1>5, <1>6, <1>7
<1>9. /\ DOMAIN r5 = DOMAIN r4 /\ OnePerOutput(r5.crossbar_flits)
      /\ r5.output_buffer = r4.output_buffer
  <2>1. "crossbar_flits" \in DOMAIN r4 /\ "output_buffer" \in DOMAIN r4
    BY <1>2, <1>8
  <2>2. DOMAIN r5 = DOMAIN r4
    BY <2>1, EventTransported DEF r5
  <2>3. OnePerOutput(r5.crossbar_flits)
    BY <2>1, EventTransported DEF r5
  <2>4. r5.output_buffer = r4.output_buffer
    BY <2>1, EventTransported DEF r5
  <2> QED BY <2>2, <2>3, <2>4
<1>10. /\ DOMAIN r6 = DOMAIN r5
       /\ r6.crossbar_flits = r5.crossbar_flits
       /\ r6.output_buffer = SendsFrom(r5.output_buffer)
  <2>1. /\ DOMAIN r6 = DOMAIN r5
        /\ \A k \in DOMAIN r5 : k \notin {"output_buffer", "credit_buffer"} => r6[k] = r5[k]
        /\ "output_buffer" \in DOMAIN r5 => r6.output_buffer = SendsFrom(r5.output_buffer)
    BY SentFields DEF r6
  <2> QED BY <1>2, <1>8, <1>9, <2>1
<1>11. ASSUME NEW o \in Ports
       PROVE  /\ \E S : r6.output_buffer[o] \in Seq(S)
              /\ Len(r6.output_buffer[o]) + CrossingTo(r6, o) <= 1
  <2> DEFINE b == r1.output_buffer[o]
  <2>1. PICK T : b \in Seq(T) /\ Len(b) <= 1
    BY <1>4
  <2>7. b \in Seq(T) /\ Len(b) <= 1
    BY <2>1
  <2>2. r6.output_buffer[o] = IF b = <<>> THEN b ELSE Tail(b)
    BY <1>8, <1>9, <1>10 DEF SendsFrom
  <2> HIDE DEF b
  <2>3. r6.output_buffer[o] \in Seq(T)
    BY <2>1, <2>2
  <2>4. Len(r6.output_buffer[o]) = 0
    <3>1. CASE b = <<>>
      BY <2>2, <3>1
    <3>2. CASE b # <<>>
      <4>0. Len(b) \in Nat /\ Len(b) # 0
        <5>1. b \in Seq(T)
          BY <2>1
        <5> QED BY <5>1, <3>2
      <4>1. Len(b) = 1
        <5> DEFINE n == Len(b)
        <5>1. n \in Nat /\ n # 0 /\ n <= 1
          BY <2>7, <4>0
        <5> HIDE DEF n
        <5>2. n = 1
          BY <5>1
        <5> QED BY <5>2 DEF n
      <4>2. Len(Tail(b)) = Len(b) - 1
        BY <2>1, <3>2
      <4> QED BY <2>2, <3>2, <4>1, <4>2
    <3> QED BY <3>1, <3>2
  <2>5. OnePerOutput(r6.crossbar_flits)
    BY <1>9, <1>10
  <2>6. CrossingTo(r6, o) \in 0..1
    BY <2>5, OneToward
  <2> QED BY <2>3, <2>4, <2>6
<1>12. \E S : r6.crossbar_flits \in Seq(S)
  BY <1>9, <1>10, Zenon DEF OnePerOutput
<1>13. DOMAIN r6.output_buffer = Ports
  BY <1>10 DEF SendsFrom
<1>14. EventInv(r6)
  <2>1. "crossbar_flits" \in DOMAIN r6 /\ "output_buffer" \in DOMAIN r6
    BY <1>2, <1>8, <1>9, <1>10
  <2> QED BY <1>11, <1>12, <1>13, <2>1, Zenon DEF EventInv
<1> QED BY <1>1, <1>14 DEF r6

-----------------------------------------------------------------------------
(* The configuration stays *)

-----------------------------------------------------------------------------
\* The network: the configuration stays as it is.

\* The pipeline depends on no variable but the configuration.
LEMMA PipelineStays ==
  ASSUME config' = config, NEW b, NEW R, NEW V, NEW W, NEW H
  PROVE  Pipeline(b, R, V, W, H) <=> Pipeline(b, R, V, W, H)'
BY DEF Pipeline, Piggyback

\* Nor does who holds the switch.
LEMMA HoldingStays ==
  ASSUME config' = config, NEW held, NEW b, NEW H
  PROVE  Holding(held, b, H) <=> Holding(held, b, H)'
BY DEF Holding, ExpandedInput, ExpandedOutput

\* Nor does how the flits in the crossbar are spread.
LEMMA SpreadStays ==
  ASSUME config' = config, NEW cf
  PROVE  Spread(cf) <=> Spread(cf)'
BY DEF Spread

\* Nor does what the allocators are.
LEMMA AllocatorsStay ==
  ASSUME config' = config, NEW rt
  PROVE  AllocatorsReady(rt) <=> AllocatorsReady(rt)'
BY DEF AllocatorsReady, Piggyback, SpecAllocator

\* The invariant of a router holds in the next state of a router that has it:
\* the configuration does not change.
LEMMA RouterStays ==
  ASSUME config' = config, NEW rt, RouterInv(rt)
  PROVE  RouterInv(rt)'
<1>1. Staged(rt)'
  <2>1. Staged(rt)
    BY DEF RouterInv, RouterCore
  <2> QED BY <2>1, PipelineStays, HoldingStays DEF Staged
<1>2. Outgoing(rt)'
  <2>1. Outgoing(rt)
    BY DEF RouterInv, RouterCore
  <2> QED BY <2>1, SpreadStays DEF Outgoing
<1>3. InTurn(rt)'
  <2>1. InTurn(rt)
    BY DEF RouterInv, RouterCore
  <2> QED BY <2>1 DEF InTurn, ExpandedInputs
<1>4. AllocatorsReady(rt)'
  BY AllocatorsStay DEF RouterInv, RouterCore
<1>5. (\A o \in Ports : Bounded(Len(rt.output_buffer[o]) + CrossingTo(rt, o)))'
  <2>1. \A o \in Ports : Bounded(Len(rt.output_buffer[o]) + CrossingTo(rt, o))
    BY DEF RouterInv
  <2>2. ASSUME NEW o \in Ports
        PROVE  Bounded(Len(rt.output_buffer[o]) + CrossingTo(rt, o))'
    <3>1. Bounded(Len(rt.output_buffer[o]) + CrossingTo(rt, o))
      BY <2>1
    <3> QED BY <3>1 DEF Bounded, CrossingTo
  <2> QED BY <2>2
<1> QED BY <1>1, <1>2, <1>3, <1>4, <1>5 DEF RouterInv, RouterCore, Lists

\* So does the invariant of an event router.
LEMMA EventStays ==
  ASSUME NEW rt, EventInv(rt)
  PROVE  EventInv(rt)'
BY DEF EventInv, CrossingTo

-----------------------------------------------------------------------------
(* The initial states *)

-----------------------------------------------------------------------------
\* The network: how it starts.

\* Nothing crosses to an output in an empty crossbar.
LEMMA NothingCrosses ==
  ASSUME NEW rt, NEW o, rt.crossbar_flits = <<>>
  PROVE  CrossingTo(rt, o) = 0
<1> DEFINE cf == rt.crossbar_flits
           at == {i \in 1..Len(cf) : cf[i] \in Toward(rt, o)}
<1>1. PICK S : cf \in Seq(S) /\ Len(cf) = 0
  <2>1. cf \in Seq({}) /\ Len(cf) = 0
    OBVIOUS
  <2> QED BY <2>1
<1>2. CrossingTo(rt, o) = Cardinality(at)
  <2>1. cf \in Seq(S)
    BY <1>1
  <2> QED BY <2>1, SelectedCount DEF CrossingTo
<1>3. at = {}
  BY <1>1
<1> QED BY <1>2, <1>3, FS_EmptySet

\* An empty output buffer is within its bound.
LEMMA NewBuffers ==
  ASSUME config \in Configs
  PROVE  \A n : n = 0 => Bounded(n)
BY ConfigFacts, Sizes DEF Bounded

\* All input VCs of a new router are idle.
LEMMA NewPipeline ==
  ASSUME NEW b, b = [iv \in InVCs |-> IdleVC]
  PROVE  Pipeline(b, {}, {}, {}, {}) /\ Holding(<<>>, b, {})
<1>1. IdleVC \in VCRecord
  BY NoOutputs DEF IdleVC, VCRecord
<1>2. IdleVC.state = "idle"
  BY DEF IdleVC
<1>3. b \in [InVCs -> VCRecord] /\ \A iv \in InVCs : b[iv].state = "idle"
  BY <1>1, <1>2
<1>4. Pipeline(b, {}, {}, {}, {})
  BY <1>3 DEF Pipeline
<1>5. DOMAIN <<>> = {ExpandedInput(iv) : iv \in {}}
  OBVIOUS
<1>6. Holding(<<>>, b, {})
  BY <1>5 DEF Holding
<1> QED BY <1>4, <1>6

\* The allocators of a new router have matched nothing.
LEMMA NewAllocators ==
  ASSUME config \in Configs
  PROVE  AllocatorsReady(NewRouter)
<1> DEFINE np == NumPorts * NumVCs
           ni == NumPorts * config.input_speedup
           no == NumPorts * config.output_speedup
           va == NewAllocator(config.vc_allocator, np, np)
           sa == NewAllocator(config.sw_allocator, ni, no)
           ss == NewAllocator(config.spec_sw_allocator, ni, no)
<1>1. /\ NewRouter.vc_allocator = va /\ NewRouter.sw_allocator = sa
      /\ NewRouter.spec_sw_allocator = ss
  BY DEF NewRouter
<1>2. np \in Nat \ {0} /\ ni \in Nat \ {0} /\ no \in Nat \ {0}
  BY Sizes
<1>3. /\ IsType(config.sw_allocator, ni, no)
      /\ SpecAllocator => IsType(config.spec_sw_allocator, ni, no)
      /\ ~Piggyback => IsType(config.vc_allocator, np, np)
  BY ConfigFacts
<1> HIDE DEF np, ni, no
<1>4. \A type, n, m : IsReady(NewAllocator(type, n, m))
  BY DEF IsReady, NewAllocator, AllocatorFields
<1>5. IsReady(va) /\ IsReady(sa) /\ IsReady(ss)
  BY <1>4
<1>6. IsAllocator(sa, config.sw_allocator, ni, no)
  BY <1>2, <1>3, NewAllocatorIs
<1>7. SpecAllocator => IsAllocator(ss, config.spec_sw_allocator, ni, no)
  BY <1>2, <1>3, NewAllocatorIs
<1>8. ~Piggyback => IsAllocator(va, config.vc_allocator, np, np)
  BY <1>2, <1>3, NewAllocatorIs
<1> HIDE DEF va, sa, ss
<1> QED BY <1>1, <1>5, <1>6, <1>7, <1>8 DEF AllocatorsReady, np, ni, no

\* A new IQRouter has the invariant of a router.
LEMMA NewRouterIs ==
  ASSUME config \in Configs
  PROVE  RouterInv(NewRouter)
<1> DEFINE rt == NewRouter
<1>1. DOMAIN rt = RouterFields
  BY DEF NewRouter, RouterFields
<1>2. /\ rt.buf = [iv \in InVCs |-> IdleVC] /\ rt.route_vcs = <<>> /\ rt.vc_alloc_vcs = <<>>
      /\ rt.sw_alloc_vcs = <<>> /\ rt.sw_hold_vcs = <<>> /\ rt.crossbar_flits = <<>>
      /\ rt.held = <<>> /\ rt.output_buffer = [o \in Ports |-> <<>>]
  BY DEF NewRouter
<1>3. InTurn(rt)
  <2>1. /\ rt.sw_rr_offset = [ei \in ExpandedInputs |-> ei % config.input_speedup]
        /\ rt.vc_rr_offset = [o \in Ports |-> -1]
    BY DEF NewRouter
  <2>2. config.input_speedup \in Nat \ {0} /\ NumPorts * config.input_speedup \in Nat \ {0}
    BY ConfigFacts, Sizes
  <2>3. \A ei \in ExpandedInputs : ei % config.input_speedup \in Int
    BY <2>2 DEF ExpandedInputs
  <2> QED BY <2>1, <2>3 DEF InTurn
<1>4. AllocatorsReady(rt)
  BY NewAllocators
<1> HIDE DEF rt
<1>5. IsList(<<>>, InVCs) /\ Range(<<>>) = {}
  BY DEF IsList, Range
<1>6. Lists(rt)
  BY <1>2, <1>5 DEF Lists
<1>7. Staged(rt)
  BY <1>2, <1>5, NewPipeline DEF Staged
<1>8. Outgoing(rt)
  <2>1. rt.crossbar_flits \in Seq([f : SentFlit, output : Ports])
    BY <1>2
  <2>2. Spread(rt.crossbar_flits)
    <3>1. \E slot \in [{} -> 0..(config.output_speedup - 1)] : TRUE
      <4>1. [x \in {} |-> 0] \in [{} -> 0..(config.output_speedup - 1)]
        OBVIOUS
      <4> QED BY <4>1
    <3>2. DOMAIN <<>> = {}
      OBVIOUS
    <3> QED BY <1>2, <3>1, <3>2 DEF Spread
  <2>3. rt.output_buffer \in [Ports -> Seq(SentFlit)]
    BY <1>2
  <2> QED BY <2>1, <2>2, <2>3 DEF Outgoing
<1>9. \A o \in Ports : Bounded(Len(rt.output_buffer[o]) + CrossingTo(rt, o))
  BY <1>2, NothingCrosses, NewBuffers
<1> QED BY <1>1, <1>3, <1>4, <1>6, <1>7, <1>8, <1>9 DEF RouterInv, RouterCore, rt

\* A new EventRouter has the invariant of an event router.
LEMMA NewEventRouterIs == EventInv(NewEventRouter)
<1> DEFINE rt == NewEventRouter
<1>1. /\ "crossbar_flits" \in DOMAIN rt /\ "output_buffer" \in DOMAIN rt
      /\ rt.crossbar_flits = <<>> /\ rt.output_buffer = [o \in Ports |-> <<>>]
  BY DEF NewEventRouter
<1> HIDE DEF rt
<1>2. <<>> \in Seq({}) /\ Len(<<>>) = 0
  OBVIOUS
<1>3. ASSUME NEW o \in Ports
      PROVE  /\ \E S : rt.output_buffer[o] \in Seq(S)
             /\ Len(rt.output_buffer[o]) + CrossingTo(rt, o) <= 1
  <2>1. rt.output_buffer[o] = <<>>
    BY <1>1
  <2>2. CrossingTo(rt, o) = 0
    BY <1>1, NothingCrosses
  <2>3. \E S : rt.output_buffer[o] \in Seq(S)
    BY <1>2, <2>1
  <2>4. Len(rt.output_buffer[o]) + CrossingTo(rt, o) <= 1
    BY <1>2, <2>1, <2>2
  <2> QED BY <2>3, <2>4
<1>4. \E S : rt.crossbar_flits \in Seq(S)
  BY <1>1, <1>2
<1>5. DOMAIN rt.output_buffer = Ports
  BY <1>1
<1> QED BY <1>1, <1>3, <1>4, <1>5 DEF EventInv, rt

\* The invariant holds in the initial states.
LEMMA NetworkInit ==
  ASSUME Init
  PROVE  NetworkInv
<1>1. config \in Configs
  BY DEF Init
<1>2. router = [x \in Places |-> RouterOfKind] /\ flits = {} /\ partial = [n \in Nodes |-> <<>>]
  BY DEF Init
<1>3. \A x \in Places : IF Eventful THEN EventInv(router[x]) ELSE RouterInv(router[x])
  <2>1. CASE Eventful
    BY <1>2, <2>1, NewEventRouterIs DEF RouterOfKind
  <2>2. CASE ~Eventful
    BY <1>1, <1>2, <2>2, NewRouterIs DEF RouterOfKind
  <2> QED BY <2>1, <2>2
<1>4. \A n \in Nodes : Whole(partial[n])
  <2>1. Whole(<<>>)
    BY DEF Whole
  <2> QED BY <1>2, <2>1
<1> QED BY <1>1, <1>2, <1>3, <1>4 DEF NetworkInv

-----------------------------------------------------------------------------
(* The parts of a cycle *)

-----------------------------------------------------------------------------
\* The network: a cycle.

\* What a cycle does to the parts the invariant is about.
LEMMA AdvanceIs ==
  ASSUME Advance
  PROVE  /\ config' = config
         /\ partial' = [n \in Nodes |-> InjectedAll(n).queue]
         /\ \E chosen \in OneOfEach(Results(QueuedAll)) :
              /\ router' = [x \in Places |-> AfterSending(SteppedAll(QueuedAll, chosen)[x])]
              /\ flits' = Moved(flits) \union (UNION {InjectedAll(n).sent : n \in Nodes}) \union
                            UNION {FlitsFrom(x, SteppedAll(QueuedAll, chosen)[x]) : x \in Places}
<1> DEFINE inj == [n \in Nodes |-> InjectedAll(n)]
           Cycle(queued, inject, stepped) ==
             /\ router' = [x \in Places |-> AfterSending(stepped[x])]
             /\ node' = [y \in Nets \X Nodes |-> inject[y[2]].nodes[y[1]]]
             /\ partial' = [n \in Nodes |-> inject[n].queue]
             /\ flits' = Moved(flits) \union (UNION {inject[n].sent : n \in Nodes}) \union
                         UNION {FlitsFrom(x, stepped[x]) : x \in Places}
             /\ credits' = Moved(credits) \union EjectionCredits(Leaving) \union
                           UNION {CreditsFrom(x, stepped[x]) : x \in Places}
             /\ retired' = [p \in Packets |-> RetiredOf(p, Leaving)]
             /\ arrived' = arrived \union ArrivedWith(Leaving)
<1>1. \E queued \in {Evaluated(QueuedAll)}, inject \in {Evaluated(inj)} :
       \E chosen \in OneOfEach(Results(queued)) :
        \E stepped \in {Evaluated(SteppedAll(queued, chosen))} : Cycle(queued, inject, stepped)
  BY DEF Advance
<1> HIDE DEF Cycle, inj
<1>2. PICK queued \in {Evaluated(QueuedAll)}, inject \in {Evaluated(inj)} :
       \E chosen \in OneOfEach(Results(queued)) :
        \E stepped \in {Evaluated(SteppedAll(queued, chosen))} : Cycle(queued, inject, stepped)
  BY <1>1, Zenon
<1>3. queued = QueuedAll /\ inject = inj
  BY EvaluatedIs
<1>4. PICK chosen \in OneOfEach(Results(queued)) :
        \E stepped \in {Evaluated(SteppedAll(queued, chosen))} : Cycle(queued, inject, stepped)
  BY <1>2, Zenon
<1>5. PICK stepped \in {Evaluated(SteppedAll(queued, chosen))} : Cycle(queued, inject, stepped)
  BY <1>4, Zenon
<1>6. stepped = SteppedAll(queued, chosen)
  BY EvaluatedIs
<1>7. /\ router' = [x \in Places |-> AfterSending(stepped[x])]
      /\ partial' = [n \in Nodes |-> inject[n].queue]
      /\ flits' = Moved(flits) \union (UNION {inject[n].sent : n \in Nodes}) \union
                  UNION {FlitsFrom(x, stepped[x]) : x \in Places}
  BY <1>5, Zenon DEF Cycle
<1>8. \A n \in Nodes : inject[n] = InjectedAll(n)
  BY <1>3 DEF inj
<1>9. partial' = [n \in Nodes |-> InjectedAll(n).queue]
  BY <1>7, <1>8
<1>10. UNION {inject[n].sent : n \in Nodes} = UNION {InjectedAll(n).sent : n \in Nodes}
  BY <1>8
<1>11. config' = config
  BY DEF Advance
<1>12. \E c \in OneOfEach(Results(QueuedAll)) :
         /\ router' = [x \in Places |-> AfterSending(SteppedAll(QueuedAll, c)[x])]
         /\ flits' = Moved(flits) \union (UNION {InjectedAll(n).sent : n \in Nodes}) \union
                       UNION {FlitsFrom(x, SteppedAll(QueuedAll, c)[x]) : x \in Places}
  <2>1. chosen \in OneOfEach(Results(QueuedAll))
    BY <1>3, Zenon
  <2>2. router' = [x \in Places |-> AfterSending(SteppedAll(QueuedAll, chosen)[x])]
    BY <1>3, <1>6, <1>7, Zenon
  <2>3. flits' = Moved(flits) \union (UNION {InjectedAll(n).sent : n \in Nodes}) \union
                   UNION {FlitsFrom(x, SteppedAll(QueuedAll, chosen)[x]) : x \in Places}
    BY <1>3, <1>6, <1>7, <1>10, Zenon
  <2> QED BY <2>1, <2>2, <2>3, Zenon
<1> QED BY <1>9, <1>11, <1>12, Zenon

\* A choice of one of each chooses from each.
LEMMA ChosenOnes ==
  ASSUME NEW sets, NEW c \in OneOfEach(sets), NEW y \in DOMAIN sets
  PROVE  c[y] \in sets[y]
BY Zenon DEF OneOfEach

\* What comes in at a router.
LEMMA ArrivalsAre ==
  ASSUME \A w \in flits : w.flit \in SentFlit, NEW net, NEW r
  PROVE  AreArrivals(Arrivals(net, r))
<1> DEFINE due(p) == Due(flits, net, InChannelOf(r, p))
           at == {p \in Ports : due(p) # {}}
           A == [i \in at |-> The(due(i)).flit]
<1>1. Arrivals(net, r) = A
  BY Zenon DEF Arrivals
<1>2. \A S : S # {} => The(S) \in S
  BY DEF The
<1>3. \A p : due(p) \subseteq flits
  BY DEF Due
<1> HIDE DEF due
<1>4. \A i \in at : A[i] \in SentFlit
  <2>1. ASSUME NEW i \in at PROVE A[i] \in SentFlit
    <3>1. The(due(i)) \in flits
      BY <1>2, <1>3
    <3>2. A[i] = The(due(i)).flit
      OBVIOUS
    <3> QED BY <3>1, <3>2
  <2> QED BY <2>1
<1> HIDE DEF A
<1>5. DOMAIN A = at
  BY DEF A
<1> QED BY <1>1, <1>4, <1>5 DEF AreArrivals

\* What the routing function says of an input VC that waits for it.
LEMMA ResultIs ==
  ASSUME config \in Configs, NEW q, RouterInv(q), NEW r \in RouterIds, NEW iv \in Range(q.route_vcs),
         NEW res \in Routes(r, iv[1], FrontFlit(q, iv))
  PROVE  res.f \in Flit /\ res.outs \in OutputSets
<1> DEFINE f == FrontFlit(q, iv)
           name == config.routing_function
           in == iv[1]
<1>1. iv \in InVCs
  BY DEF RouterInv, RouterCore, Lists, IsList, Range
<1>2. f \in Flit
  <2>1. q.buf[iv].flits # <<>> /\ q.buf[iv] \in VCRecord
    BY <1>1 DEF RouterInv, RouterCore, Staged, Pipeline
  <2>2. q.buf[iv].flits \in Seq(Flit)
    BY <2>1 DEF VCRecord
  <2> QED BY <2>1, <2>2 DEF FrontFlit
<1>3. in \in Ports
  BY <1>1 DEF InVCs
<1>4. name \in {c.routing_function : c \in Configs}
  OBVIOUS
<1>5. res \in Route(name, r, in, f)
  BY DEF Routes
<1> HIDE DEF f, in, name
<1>6. /\ res.f \in Flit /\ IsFiniteSet(res.outs)
  BY <1>2, <1>3, <1>4, <1>5, RouteAssumption
<1>7. res.outs \subseteq Outs
  <2>1. res.outs \subseteq OutsOf(name, r, in, f)
    BY <1>5 DEF OutsOf
  <2> QED BY <1>2, <1>3, <1>4, <2>1 DEF Outs
<1> QED BY <1>6, <1>7 DEF OutputSets

\* The routing results chosen for the VCs of a router are results of its
\* routing function.
LEMMA ChosenRoutes ==
  ASSUME config \in Configs, NEW queued, NEW x \in Places, RouterInv(queued[x]),
         NEW chosen \in OneOfEach(Results(queued))
  PROVE  IsRouted([iv \in Range(queued[x].route_vcs) |-> chosen[<<x, iv>>]],
                  Range(queued[x].route_vcs))
<1> DEFINE R == Range(queued[x].route_vcs)
           all == UNION {{<<y, iv>> : iv \in Range(queued[y].route_vcs)} : y \in Places}
<1>1. ASSUME NEW iv \in R
      PROVE  chosen[<<x, iv>>].f \in Flit /\ chosen[<<x, iv>>].outs \in OutputSets
  <2> DEFINE y == <<x, iv>>
  <2>1. y \in all
    OBVIOUS
  <2>2. y[1] = x /\ y[2] = iv
    OBVIOUS
  <2> HIDE DEF y
  <2>3. DOMAIN Results(queued) = all
    BY DEF Results
  <2>4. Results(queued)[y] = Routes(x[2], iv[1], FrontFlit(queued[x], iv))
    BY <2>1, <2>2 DEF Results
  <2> HIDE DEF all
  <2>5. chosen[y] \in Results(queued)[y]
    BY <2>1, <2>3, ChosenOnes
  <2>6. x[2] \in RouterIds
    BY DEF Places
  <2>7. chosen[y] \in Routes(x[2], iv[1], FrontFlit(queued[x], iv))
    BY <2>4, <2>5
  <2>8. chosen[y].f \in Flit /\ chosen[y].outs \in OutputSets
    BY <2>6, <2>7, ResultIs
  <2> QED BY <2>8 DEF y
<1> HIDE DEF R
<1> QED BY <1>1 DEF IsRouted, R

\* A router at the end of a cycle, and what it sends.
LEMMA SentAre ==
  ASSUME NEW x, NEW rt, Outgoing(rt), NEW w \in FlitsFrom(x, rt)
  PROVE  w.flit \in SentFlit
<1>1. PICK o \in DOMAIN SentFlits(rt) : w = FlitOn(x[1], OutChannelOf(x[2], o), SentFlits(rt)[o])
  BY DEF FlitsFrom
<1>2. o \in Ports /\ rt.output_buffer[o] # <<>> /\ SentFlits(rt)[o] = Head(rt.output_buffer[o])
  BY DEF SentFlits
<1>3. rt.output_buffer[o] \in Seq(SentFlit)
  BY <1>2 DEF Outgoing
<1>4. Head(rt.output_buffer[o]) \in SentFlit
  BY <1>2, <1>3
<1>5. w.flit = SentFlits(rt)[o]
  BY <1>1 DEF FlitOn
<1> QED BY <1>2, <1>4, <1>5

\* A cycle keeps the invariant of an IQRouter, and the flits it sends have a VC.
LEMMA RouterCycle ==
  ASSUME config \in Configs, ~Eventful, \A w \in flits : w.flit \in SentFlit,
         NEW x \in Places, RouterInv(router[x]),
         NEW chosen \in OneOfEach(Results(QueuedAll)),
         NEW s, s = SteppedAll(QueuedAll, chosen)[x]
  PROVE  /\ RouterInv(AfterSending(s))
         /\ \A w \in FlitsFrom(x, s) : w.flit \in SentFlit
<1> DEFINE rt == router[x]
           A == Arrivals(x[1], x[2])
           C == Returned(x[1], x[2])
           q == InputQueuing(rt, A, C)
           routed == [iv \in Range(QueuedAll[x].route_vcs) |-> chosen[<<x, iv>>]]
<1>1. QueuedAll[x] = q
  BY DEF QueuedAll, Queued
<1>2. RouterInv(q)
  <2>1. AreArrivals(A)
    BY ArrivalsAre
  <2> HIDE DEF A, C
  <2> QED BY <2>1, QueuedKept
<1>3. IsRouted(routed, Range(q.route_vcs))
  <2>1. RouterInv(QueuedAll[x])
    BY <1>1, <1>2
  <2>2. IsRouted(routed, Range(QueuedAll[x].route_vcs))
    BY <2>1, ChosenRoutes
  <2> QED BY <1>1, <2>2
<1>4. s = Stepped(rt, QueuedAll[x], A, C, routed)
  BY DEF SteppedAll
<1>5. s = IF Active(rt, A, C) THEN Update(q, routed) ELSE rt
  BY <1>1, <1>4, Zenon DEF Stepped
<1> HIDE DEF A, C, q, routed, rt
<1>6. CASE s = Update(q, routed)
  <2>1. RouterInv(AfterSending(s))
    BY <1>2, <1>3, <1>6, UpdateKept
  <2>2. RouterCore(Update(q, routed))
    BY <1>2, <1>3, UpdateCore DEF RouterInv
  <2>3. Outgoing(s)
    BY <2>2, <1>6 DEF RouterCore
  <2> QED BY <2>1, <2>3, SentAre
<1>7. CASE s = rt
  <2>1. RouterInv(AfterSending(s))
    BY <1>7, SendingKept DEF rt
  <2>2. Outgoing(s)
    BY <1>7 DEF RouterInv, RouterCore, rt
  <2> QED BY <2>1, <2>2, SentAre
<1> QED BY <1>5, <1>6, <1>7

\* A cycle keeps the invariant of an EventRouter.
LEMMA EventCycle ==
  ASSUME Eventful, NEW x \in Places, EventInv(router[x]), NEW chosen
  PROVE  EventInv(AfterSending(SteppedAll(QueuedAll, chosen)[x]))
<1> DEFINE A == Arrivals(x[1], x[2])
           C == Returned(x[1], x[2])
           q == EventQueuing(router[x], A)
           routed == [iv \in Range(QueuedAll[x].route_vcs) |-> chosen[<<x, iv>>]]
<1>1. QueuedAll[x] = q
  BY DEF QueuedAll, Queued
<1>2. SteppedAll(QueuedAll, chosen)[x] = Stepped(router[x], QueuedAll[x], A, C, routed)
  BY DEF SteppedAll
<1> HIDE DEF A, C, routed
<1>3. Stepped(router[x], QueuedAll[x], A, C, routed) = EventStep(q, A, C, routed)
  BY <1>1, Zenon DEF Stepped
<1>4. EventInv(q)
  BY EventQueuedKept
<1> HIDE DEF q
<1>5. EventInv(AfterSending(EventStep(q, A, C, routed)))
  BY <1>4, EventStepKept
<1> QED BY <1>2, <1>3, <1>5

-----------------------------------------------------------------------------
(* The nodes *)

\* A VC that is chosen is one there is.
LEMMA ChosenVCIs ==
  ASSUME NEW n, NEW range, range.lo \in VCIds, range.hi \in VCIds
  PROVE  ChosenVC(n, range) \in VCIds \union {-1}
<1> DEFINE count == range.hi - range.lo + 1
           vc(i) == IF n.last_vc \in range.lo..range.hi
                    THEN range.lo + ((n.last_vc - range.lo + i) % count) ELSE range.lo
           fits(i) == IsAvailableFor(n.buf, vc(i)) /\ ~IsFullFor(n.buf, vc(i))
           first == CHOOSE i \in 1..count : fits(i) /\ \A j \in 1..(i - 1) : ~fits(j)
<1>1. range.lo \in Int /\ range.hi \in Int /\ NumVCs \in Nat
  BY BufferAssumption DEF VCIds
<1>2. count \in Int
  BY <1>1
<1>3. ASSUME NEW i \in 1..count PROVE vc(i) \in VCIds
  <2>1. CASE n.last_vc \in range.lo..range.hi
    <3> DEFINE m == (n.last_vc - range.lo + i) % count
    <3>1. n.last_vc \in Int /\ count \in Nat \ {0}
      BY <1>1, <1>2, <1>3, <2>1
    <3>2. n.last_vc - range.lo + i \in Int
      BY <1>1, <3>1
    <3>3. m \in 0..(count - 1)
      <4> HIDE DEF count
      <4> QED BY <3>1, <3>2
    <3>4. vc(i) = range.lo + m
      BY <2>1
    <3> HIDE DEF m
    <3>5. range.lo + m \in VCIds
      BY <1>1, <3>3 DEF VCIds
    <3> QED BY <3>4, <3>5
  <2>2. CASE n.last_vc \notin range.lo..range.hi
    BY <2>2
  <2> QED BY <2>1, <2>2
<1>4. ChosenVC(n, range) = IF \E i \in 1..count : fits(i) THEN vc(first) ELSE -1
  BY Zenon DEF ChosenVC
<1> HIDE DEF fits, vc
<1>5. ASSUME \E i \in 1..count : fits(i) PROVE first \in 1..count
  <2> DEFINE S == {i \in 1..count : fits(i)}
  <2>1. S \in SUBSET Nat /\ S # {}
    BY <1>2, <1>5
  <2> HIDE DEF S
  <2>2. PICK k \in S : \A j \in S : k <= j
    BY <2>1, LeastNat, Zenon
  <2> HIDE DEF count
  <2>3. k \in 1..count /\ fits(k) /\ \A j \in 1..(k - 1) : ~fits(j)
    <3>1. k \in 1..count /\ fits(k)
      BY <2>2 DEF S
    <3>2. ASSUME NEW j \in 1..(k - 1), fits(j) PROVE FALSE
      <4>1. j \in 1..count /\ ~(k <= j)
        BY <1>2, <3>1
      <4> QED BY <2>2, <3>2, <4>1 DEF S
    <3> QED BY <3>1, <3>2
  <2>4. \E i \in 1..count : fits(i) /\ \A j \in 1..(i - 1) : ~fits(j)
    BY <2>3
  <2> QED BY <2>4, Zenon DEF first
<1> HIDE DEF first, count
<1> QED BY <1>3, <1>4, <1>5

\* The VCs a node may inject on are VCs there are.
LEMMA NodeRange ==
  ASSUME config \in Configs, NEW f \in Flit, f.head,
         NEW range, range = CHOOSE out \in UNION {res.outs : res \in Routes(-1, Inject, f)} : TRUE
  PROVE  range.lo \in VCIds /\ range.hi \in VCIds
<1> DEFINE name == config.routing_function
           outs == UNION {res.outs : res \in Route(name, -1, Inject, f)}
<1>1. name \in {c.routing_function : c \in Configs}
  OBVIOUS
<1> HIDE DEF name
<1>2. outs # {} /\ \A out \in outs : IsOutput(out)
  BY <1>1, RouteAssumption, Zenon
<1>3. outs = UNION {res.outs : res \in Routes(-1, Inject, f)}
  BY Zenon DEF Routes, name
<1>4. range = CHOOSE out \in outs : TRUE
  BY <1>3, Zenon
<1> HIDE DEF outs
<1>5. range \in outs
  BY <1>2, <1>4
<1> QED BY <1>2, <1>5 DEF IsOutput

\* The flits that are left at a node are whole packets again.
LEMMA RestIsWhole ==
  ASSUME NEW q, Whole(q), q # <<>>, NEW vc \in VCIds
  PROVE  /\ Head(q).tail => Whole(Tail(q))
         /\ ~Head(q).tail => Whole(<<[Head(Tail(q)) EXCEPT !.vc = vc]>> \o Tail(Tail(q)))
<1> DEFINE n == Len(q)
<1>1. q \in Seq(Flit) /\ n \in Nat /\ n > 0 /\ Head(q) = q[1]
  BY DEF Whole
<1>2. /\ \A i \in 1..(n - 1) : q[i].tail => q[i + 1].head
      /\ q[n].tail /\ (q[1].head \/ q[1].vc \in VCIds)
  BY DEF Whole
<1>3. /\ Tail(q) \in Seq(Flit) /\ Len(Tail(q)) = n - 1
      /\ \A i \in 1..(n - 1) : Tail(q)[i] = q[i + 1]
  BY <1>1
<1> HIDE DEF n
<1>4. ASSUME q[1].tail PROVE Whole(Tail(q))
  <2> DEFINE t == Tail(q)
  <2>1. \A i \in 1..(n - 2) : i \in 1..(n - 1) /\ i + 1 \in 1..(n - 1)
    BY <1>1
  <2>2. \A i \in 1..(Len(t) - 1) : t[i].tail => t[i + 1].head
    BY <1>1, <1>2, <1>3, <2>1
  <2>3. ASSUME t # <<>> PROVE t[Len(t)].tail /\ t[1].head
    <3>1. n - 1 \in Nat /\ n - 1 # 0
      BY <1>1, <1>3, <2>3
    <3>2. t[n - 1] = q[n] /\ t[1] = q[2]
      BY <1>1, <1>3, <3>1
    <3> QED BY <1>1, <1>2, <1>3, <1>4, <3>1, <3>2
  <2> QED BY <1>3, <2>2, <2>3 DEF Whole
<1>5. ASSUME ~q[1].tail
      PROVE  Whole(<<[Head(Tail(q)) EXCEPT !.vc = vc]>> \o Tail(Tail(q)))
  <2> DEFINE t == Tail(q)
             h == [q[2] EXCEPT !.vc = vc]
             s == <<h>> \o Tail(t)
             m == n - 1
  <2>1. n > 1
    BY <1>1, <1>2, <1>5
  <2>2. q[2] \in Flit
    BY <1>1, <2>1 DEF n
  <2>3. h \in Flit /\ h.vc = vc /\ h.tail = q[2].tail
    <3>1. {"vc", "head", "tail"} \subseteq DOMAIN q[2] /\ h \in Flit
      BY <2>2, FlitAssumption, Zenon
    <3> QED BY <3>1
  <2>4. Head(t) = q[2]
    <3>1. t[1] = q[2] /\ t \in Seq(Flit) /\ Len(t) > 0
      BY <1>1, <1>3, <2>1
    <3> HIDE DEF t
    <3> QED BY <3>1
  <2>5. m \in Nat \ {0} /\ Len(t) = m /\ t \in Seq(Flit)
    BY <1>1, <1>3, <2>1
  <2> HIDE DEF h
  <2>6. /\ s \in Seq(Flit) /\ Len(s) = m
        /\ s[1] = h /\ \A i \in 2..m : s[i] = t[i]
    <3> HIDE DEF m, t
    <3> QED BY <2>3, <2>5
  <2>7. s # <<>>
    <3> HIDE DEF s
    <3> QED BY <2>5, <2>6
  <2> HIDE DEF s
  <2>8. \A i \in 1..m : s[i].tail = q[i + 1].tail /\ (i # 1 => s[i] = q[i + 1])
    BY <1>1, <1>3, <2>3, <2>5, <2>6
  <2>9. \A i \in 1..(Len(s) - 1) : s[i].tail => s[i + 1].head
    <3>1. ASSUME NEW i \in 1..(m - 1), s[i].tail PROVE s[i + 1].head
      <4>1. i \in 1..m /\ i + 1 \in 1..m /\ i + 1 # 1 /\ i + 1 \in 1..(n - 1)
        BY <1>1
      <4>2. q[i + 1].tail /\ s[i + 1] = q[(i + 1) + 1]
        BY <2>8, <3>1, <4>1
      <4> QED BY <1>2, <4>1, <4>2
    <3> QED BY <2>6, <3>1
  <2>10. s[Len(s)].tail
    <3>1. m \in 1..m /\ m + 1 = n
      BY <1>1, <2>5
    <3> QED BY <1>2, <2>6, <2>8, <3>1
  <2>11. Whole(s)
    BY <2>3, <2>6, <2>9, <2>10 DEF Whole
  <2> QED BY <2>4, <2>11 DEF s, h
<1> QED BY <1>1, <1>4, <1>5

\* What a node sends into a subnet, and what it keeps.
LEMMA InjectedIs ==
  ASSUME config \in Configs, NEW queue, Whole(queue), NEW n, NEW net
  PROVE  /\ Whole(Injected(queue, n, net).queue)
         /\ \A f \in Injected(queue, n, net).sent : f \in SentFlit
<1> DEFINE f == Head(queue)
           range == CHOOSE out \in UNION {res.outs : res \in Routes(-1, Inject, f)} : TRUE
           vc == IF f.vc = -1 THEN ChosenVC(n, range) ELSE f.vc
           sent == [f EXCEPT !.vc = vc]
           rest == Tail(queue)
           taken == IF f.head THEN TakeBuffer(n.buf, [v \in {vc} |-> 0]) ELSE n.buf
           next == IF f.tail THEN rest ELSE <<[Head(rest) EXCEPT !.vc = vc]>> \o Tail(rest)
           stays == queue = <<>> \/ f.net # net \/ vc = -1 \/ IsFullFor(n.buf, vc)
           nd == [buf |-> SendingFlit(taken, {sent}), last_vc |-> vc]
<1>1. Injected(queue, n, net) =
        IF stays THEN [queue |-> queue, node |-> n, sent |-> {}]
        ELSE [queue |-> next, node |-> nd, sent |-> {sent}]
  BY Zenon DEF Injected
<1>2. ASSUME ~stays
      PROVE  Whole(next) /\ sent \in SentFlit
  <2>1. queue # <<>> /\ vc # -1
    BY <1>2
  <2>2. f \in Flit /\ (f.head \/ f.vc \in VCIds)
    <3>1. queue \in Seq(Flit) /\ queue[1] = Head(queue) /\ (queue[1].head \/ queue[1].vc \in VCIds)
      BY <2>1 DEF Whole
    <3> QED BY <2>1, <3>1
  <2> HIDE DEF f
  <2>3. vc \in VCIds
    <3>1. {"vc", "head", "tail"} \subseteq DOMAIN f /\ f.vc \in VCIds \union {-1}
      BY <2>2, FlitAssumption, Zenon
    <3>2. CASE f.vc = -1
      <4>1. -1 \notin VCIds
        BY DEF VCIds
      <4>2. f.head
        BY <2>2, <3>2, <4>1
      <4> DEFINE rg == range
      <4>3. rg = CHOOSE out \in UNION {res.outs : res \in Routes(-1, Inject, f)} : TRUE
        OBVIOUS
      <4> HIDE DEF rg
      <4>4. rg.lo \in VCIds /\ rg.hi \in VCIds
        BY <2>2, <4>2, <4>3, NodeRange
      <4>5. ChosenVC(n, rg) \in VCIds \union {-1}
        BY <4>4, ChosenVCIs
      <4>6. vc = ChosenVC(n, rg)
        BY <3>2 DEF rg
      <4> QED BY <2>1, <4>5, <4>6
    <3>3. CASE f.vc # -1
      BY <3>1, <3>3
    <3> QED BY <3>2, <3>3
  <2> HIDE DEF vc
  <2>4. sent \in SentFlit
    <3>1. {"vc", "head", "tail"} \subseteq DOMAIN f /\ sent \in Flit
      BY <2>2, <2>3, FlitAssumption, Zenon
    <3> QED BY <2>3, <3>1 DEF SentFlit
  <2>5. Whole(next)
    BY <2>1, <2>3, RestIsWhole DEF f
  <2> QED BY <2>4, <2>5
<1> HIDE DEF stays, next, nd, sent
<1>3. CASE stays
  <2>1. Injected(queue, n, net) = [queue |-> queue, node |-> n, sent |-> {}]
    BY <1>1, <1>3
  <2> QED BY <2>1
<1>4. CASE ~stays
  <2>1. Injected(queue, n, net) = [queue |-> next, node |-> nd, sent |-> {sent}]
    BY <1>1, <1>4
  <2> QED BY <1>2, <1>4, <2>1
<1> QED BY <1>3, <1>4

-----------------------------------------------------------------------------
\* The network: what the nodes inject.

\* What an injection leaves: whole packets at the nodes, sent flits with a VC.
Given(done) ==
  Whole(done.queue) /\ \A w \in done.sent : w.flit \in SentFlit

\* Injecting into one subnet leaves whole packets at the nodes.
LEMMA IntoIs ==
  ASSUME config \in Configs, NEW done, Given(done), NEW n, NEW net
  PROVE  Given(InjectedInto(done, n, net))
<1> DEFINE step == Injected(done.queue, Credited(net, n), net)
           nodes == Override([m \in {net} |-> step.node], done.nodes)
           on(f) == FlitOn(net, <<"inject", n>>, f)
           sent == done.sent \union {on(f) : f \in step.sent}
<1>1. InjectedInto(done, n, net) = [queue |-> step.queue, nodes |-> nodes, sent |-> sent]
  BY Zenon DEF InjectedInto
<1>2. Whole(step.queue) /\ \A f \in step.sent : f \in SentFlit
  BY InjectedIs DEF Given
<1>3. \A f : on(f).flit = f
  BY DEF FlitOn
<1> HIDE DEF step, nodes, on
<1>4. \A w \in sent : w.flit \in SentFlit
  BY <1>2, <1>3 DEF Given
<1> HIDE DEF sent
<1> QED BY <1>1, <1>2, <1>4 DEF Given

\* A node after all its subnets.
LEMMA AllIs ==
  ASSUME config \in Configs, NEW n, Whole(partial[n])
  PROVE  Given(InjectedAll(n))
<1> DEFINE a == [queue |-> partial[n], nodes |-> <<>>, sent |-> {}]
           N == config.subnets
           Step(b, k) == InjectedInto(b, n, k)
           H(h) == [k \in 0..N |-> IF k = 0 THEN [queue |-> partial[n], nodes |-> <<>>, sent |-> {}]
                                   ELSE InjectedInto(h[k - 1], n, k - 1)]
           f == CHOOSE h : h = H(h)
<1>1. InjectedAll(n) = f[N]
  BY Zenon DEF InjectedAll
<1>2. N \in Nat
  BY ConfigFacts
<1>3. Given(a)
  BY DEF Given
<1>4. \A h : H(h) = [k \in 0..N |-> IF k = 0 THEN a ELSE Step(h[k - 1], k - 1)]
  OBVIOUS
<1> HIDE DEF N, a
<1> DEFINE Run(g, k) == g[0] = a /\ \A j \in 1..k : g[j] = Step(g[j - 1], j - 1)
           Done == {k \in 0..N : \E g : Run(g, k)}
<1>5. ASSUME NEW b, NEW k, Given(b) PROVE Given(Step(b, k))
  BY <1>5, IntoIs
<1> HIDE DEF Step
<1>6. N \in Done
  <2>1. 0 \in Done
    <3> DEFINE g == [i \in {0} |-> a]
    <3>1. Run(g, 0)
      OBVIOUS
    <3>2. \E h : Run(h, 0)
      <4> HIDE DEF Run, g
      <4> QED BY <3>1
    <3> HIDE DEF Run
    <3> QED BY <3>2, <1>2
  <2>2. ASSUME NEW k \in 1..N, k - 1 \in Done PROVE k \in Done
    <3>1. PICK g : Run(g, k - 1)
      <4> HIDE DEF Run
      <4> QED BY <2>2
    <3> DEFINE h == [i \in 0..k |-> IF i = k THEN Step(g[k - 1], k - 1) ELSE g[i]]
    <3>2. Run(h, k)
      <4>1. h[0] = a
        BY <3>1
      <4>2. ASSUME NEW j \in 1..k PROVE h[j] = Step(h[j - 1], j - 1)
        <5>1. CASE j = k
          BY <5>1
        <5>2. CASE j # k
          <6>1. j \in 1..(k - 1) /\ h[j] = g[j] /\ h[j - 1] = g[j - 1]
            BY <5>2
          <6> QED BY <6>1, <3>1
        <5> QED BY <5>1, <5>2
      <4> QED BY <4>1, <4>2
    <3>3. \E j : Run(j, k)
      <4> HIDE DEF Run, h
      <4> QED BY <3>2
    <3> HIDE DEF Run
    <3> QED BY <3>3
  <2> HIDE DEF Done
  <2>3. \A k \in 1..N : k - 1 \in Done => k \in Done
    BY <2>2
  <2>4. \A k \in 0..N : k \in Done
    BY <1>2, <2>1, <2>3, UpTo, Zenon
  <2> QED BY <2>4, <1>2
<1>7. PICK g : Run(g, N)
  <2> HIDE DEF Run
  <2> QED BY <1>6
<1> HIDE DEF H
<1> DEFINE r == [k \in 0..N |-> g[k]]
<1>8. r = H(r)
  <2>1. ASSUME NEW k \in 0..N PROVE r[k] = H(r)[k]
    <3>1. CASE k = 0
      BY <1>4, <1>7, <3>1
    <3>2. CASE k # 0
      <4>1. k \in 1..N /\ k - 1 \in 0..N
        BY <1>2, <3>2
      <4>2. r[k] = g[k] /\ r[k - 1] = g[k - 1]
        BY <4>1
      <4>3. H(r)[k] = Step(r[k - 1], k - 1)
        BY <1>4, <3>2
      <4>4. g[k] = Step(g[k - 1], k - 1)
        BY <1>7, <4>1
      <4> QED BY <4>2, <4>3, <4>4
    <3> QED BY <3>1, <3>2
  <2> HIDE DEF Run
  <2> QED BY <1>4, <2>1
<1>9. f = H(f)
  <2> HIDE DEF r
  <2> QED BY <1>8, Zenon
<1> HIDE DEF f
<1>10. f[0] = a /\ \A k \in 1..N : f[k] = Step(f[k - 1], k - 1)
  <2>1. f[0] = H(f)[0] /\ \A k \in 0..N : f[k] = H(f)[k]
    BY <1>9, Zenon
  <2>2. H(f)[0] = a /\ \A k \in 1..N : H(f)[k] = Step(f[k - 1], k - 1) /\ k \in 0..N
    BY <1>2, <1>4
  <2> QED BY <2>1, <2>2
<1> DEFINE Right == {k \in 0..N : Given(f[k])}
<1>11. 0 \in Right
  BY <1>2, <1>3, <1>10
<1>12. ASSUME NEW k \in 1..N, k - 1 \in Right PROVE k \in Right
  <2>1. Given(f[k - 1]) /\ f[k] = Step(f[k - 1], k - 1)
    BY <1>10, <1>12
  <2>2. Given(f[k])
    BY <2>1, <1>5
  <2> QED BY <2>2
<1>13. \A k \in 0..N : k \in Right
  <2> HIDE DEF Right
  <2>1. \A k \in 1..N : k - 1 \in Right => k \in Right
    BY <1>12
  <2> QED BY <1>2, <1>11, <2>1, UpTo, Zenon
<1> QED BY <1>1, <1>2, <1>13

\* A cycle.
LEMMA AdvanceKept ==
  ASSUME NetworkInv, Advance
  PROVE  NetworkInv'
<1>1. /\ config \in Configs /\ DOMAIN router = Places
      /\ \A x \in Places : IF Eventful THEN EventInv(router[x]) ELSE RouterInv(router[x])
      /\ ~Eventful => \A w \in flits : w.flit \in SentFlit
      /\ DOMAIN partial = Nodes /\ \A n \in Nodes : Whole(partial[n])
  BY DEF NetworkInv
<1>2. /\ config' = config
      /\ partial' = [n \in Nodes |-> InjectedAll(n).queue]
  BY AdvanceIs
<1>3. PICK chosen \in OneOfEach(Results(QueuedAll)) :
        /\ router' = [x \in Places |-> AfterSending(SteppedAll(QueuedAll, chosen)[x])]
        /\ flits' = Moved(flits) \union (UNION {InjectedAll(n).sent : n \in Nodes}) \union
                      UNION {FlitsFrom(x, SteppedAll(QueuedAll, chosen)[x]) : x \in Places}
  BY AdvanceIs
<1> DEFINE s(x) == SteppedAll(QueuedAll, chosen)[x]
<1>4. \A n \in Nodes : Given(InjectedAll(n))
  BY <1>1, AllIs
<1>5. (DOMAIN partial = Nodes /\ \A n \in Nodes : Whole(partial[n]))'
  <2>1. DOMAIN partial' = Nodes /\ \A n \in Nodes : Whole(partial'[n])
    BY <1>2, <1>4 DEF Given
  <2>2. (\A q : Whole(q) <=> Whole(q)')
    BY DEF Whole
  <2> QED BY <2>1 DEF Whole
<1>6. Places' = Places /\ (Eventful' <=> Eventful)
  BY <1>2 DEF Places, Nets, Eventful
<1>7. CASE Eventful
  <2>1. ASSUME NEW x \in Places
        PROVE  EventInv(router[x])'
    <3>1. EventInv(AfterSending(s(x)))
      BY <1>1, <1>7, EventCycle
    <3>2. PICK r : r = AfterSending(s(x))
      OBVIOUS
    <3> HIDE DEF s
    <3>3. router'[x] = r
      BY <1>3, <3>2 DEF s
    <3>4. EventInv(r)
      BY <3>1, <3>2
    <3>5. EventInv(r)'
      BY <3>4, EventStays
    <3> QED BY <3>3, <3>5
  <2> QED BY <1>1, <1>2, <1>3, <1>5, <1>6, <1>7, <2>1 DEF NetworkInv
<1>8. CASE ~Eventful
  <2>1. ASSUME NEW x \in Places
        PROVE  RouterInv(AfterSending(s(x))) /\ \A w \in FlitsFrom(x, s(x)) : w.flit \in SentFlit
    <3>1. RouterInv(router[x]) /\ \A w \in flits : w.flit \in SentFlit
      BY <1>1, <1>8
    <3>2. PICK t : t = SteppedAll(QueuedAll, chosen)[x]
      OBVIOUS
    <3>3. /\ RouterInv(AfterSending(t))
          /\ \A w \in FlitsFrom(x, t) : w.flit \in SentFlit
      BY <1>1, <1>8, <3>1, <3>2, RouterCycle
    <3> QED BY <3>2, <3>3
  <2> HIDE DEF s
  <2>2. ASSUME NEW x \in Places
        PROVE  RouterInv(router[x])'
    <3>1. PICK r : r = AfterSending(s(x))
      OBVIOUS
    <3>2. router'[x] = r
      BY <1>3, <3>1 DEF s
    <3>3. RouterInv(r)
      BY <2>1, <3>1
    <3>4. RouterInv(r)'
      BY <1>2, <3>3, RouterStays
    <3> QED BY <3>2, <3>4
  <2>3. \A w \in flits' : w.flit \in SentFlit
    <3>1. flits' = Moved(flits) \union (UNION {InjectedAll(n).sent : n \in Nodes}) \union
                     UNION {FlitsFrom(x, s(x)) : x \in Places}
      BY <1>3 DEF s
    <3>2. \A w \in Moved(flits) : w.flit \in SentFlit
      <4>1. ASSUME NEW w \in Moved(flits) PROVE w.flit \in SentFlit
        <5>1. PICK v \in flits : w = [v EXCEPT !.due = @ - 1]
          BY DEF Moved
        <5>2. v.flit \in SentFlit
          BY <1>1, <1>8
        <5> QED BY <5>1, <5>2
      <4> QED BY <4>1
    <3>3. \A n \in Nodes : \A w \in InjectedAll(n).sent : w.flit \in SentFlit
      BY <1>4 DEF Given
    <3>4. ASSUME NEW w \in flits' PROVE w.flit \in SentFlit
      <4>1. CASE w \in Moved(flits)
        BY <3>2, <4>1
      <4>2. CASE w \in UNION {InjectedAll(n).sent : n \in Nodes}
        <5>1. PICK n \in Nodes : w \in InjectedAll(n).sent
          BY <4>2
        <5> QED BY <3>3, <5>1
      <4>3. CASE w \in UNION {FlitsFrom(x, s(x)) : x \in Places}
        <5>1. PICK x \in Places : w \in FlitsFrom(x, s(x))
          BY <4>3
        <5> QED BY <2>1, <5>1
      <4>4. w \in Moved(flits) \union (UNION {InjectedAll(n).sent : n \in Nodes}) \union
                  UNION {FlitsFrom(x, s(x)) : x \in Places}
        BY <3>1, Zenon
      <4>5. \A A, B, C : w \in A \union B \union C => w \in A \/ w \in B \/ w \in C
        OBVIOUS
      <4>6. \/ w \in Moved(flits) \/ w \in UNION {InjectedAll(n).sent : n \in Nodes}
            \/ w \in UNION {FlitsFrom(x, s(x)) : x \in Places}
        BY <4>4, <4>5, Zenon
      <4> QED BY <4>1, <4>2, <4>3, <4>6
    <3> QED BY <3>4
  <2>4. (\A w \in flits : w.flit \in SentFlit)'
    BY <2>3 DEF SentFlit
  <2> QED BY <1>1, <1>2, <1>3, <1>5, <1>6, <1>8, <2>2, <2>4 DEF NetworkInv
<1> QED BY <1>7, <1>8

\* A packet that is handed over.
LEMMA GenerateKept ==
  ASSUME NetworkInv, NEW p \in Packets, GeneratePacket(p)
  PROVE  NetworkInv'
<1>1. PICK net \in Nets : partial' = [partial EXCEPT ![Source[p]] = @ \o Flits(p, net)]
  BY DEF GeneratePacket
<1>2. config' = config /\ router' = router /\ flits' = flits
  BY DEF GeneratePacket
<1>3. /\ config \in Configs /\ DOMAIN router = Places
      /\ \A x \in Places : IF Eventful THEN EventInv(router[x]) ELSE RouterInv(router[x])
      /\ ~Eventful => \A w \in flits : w.flit \in SentFlit
      /\ DOMAIN partial = Nodes /\ \A n \in Nodes : Whole(partial[n])
  BY DEF NetworkInv
<1> DEFINE g == Flits(p, net)
<1>4. /\ g \in Seq(Flit) /\ Len(g) = Size[p] /\ Size[p] \in Nat \ {0}
      /\ g[1].head /\ g[Len(g)].tail
      /\ \A i \in 1..(Len(g) - 1) : ~g[i].tail
  <2>1. Size[p] \in Nat \ {0}
    BY FlitAssumption, Zenon
  <2>2. Range(g) \subseteq Flit
    BY <1>3, FlitAssumption DEF Nets
  <2>3. DOMAIN g = 1..Size[p]
    BY DEF Flits
  <2>4. \A i \in 1..Size[p] : g[i].head = (i = 1) /\ g[i].tail = (i = Size[p])
    BY DEF Flits
  <2> DEFINE k == Size[p]
  <2>5. g = [i \in 1..k |-> g[i]]
    BY DEF Flits
  <2> HIDE DEF g, k
  <2>6. \A i \in 1..k : g[i] \in Flit
    BY <2>2, <2>3 DEF Range, k
  <2>7. k \in Nat /\ \A h : (h = [i \in 1..k |-> h[i]] /\ \A i \in 1..k : h[i] \in Flit) => h \in Seq(Flit) /\ Len(h) = k
    BY <2>1 DEF k
  <2>8. g \in Seq(Flit) /\ Len(g) = k
    BY <2>5, <2>6, <2>7
  <2>9. k \in Nat \ {0} /\ \A i \in 1..k : g[i].head = (i = 1) /\ g[i].tail = (i = k)
    BY <2>1, <2>4 DEF k
  <2>10. 1 \in 1..k /\ k \in 1..k /\ \A i \in 1..(k - 1) : i \in 1..k /\ i # k
    BY <2>9
  <2>11. g[1].head /\ g[k].tail /\ \A i \in 1..(k - 1) : ~g[i].tail
    BY <2>9, <2>10, Zenon
  <2> QED BY <2>8, <2>9, <2>11 DEF k
<1> HIDE DEF g
<1>5. ASSUME NEW q, Whole(q) PROVE Whole(q \o g)
  <2> DEFINE n == Len(q)
             m == Len(g)
             s == q \o g
  <2>1. q \in Seq(Flit) /\ n \in Nat /\ m \in Nat \ {0}
    BY <1>4, <1>5 DEF Whole
  <2>2. /\ s \in Seq(Flit) /\ Len(s) = n + m
        /\ \A i \in 1..n : s[i] = q[i]
        /\ \A i \in 1..m : s[n + i] = g[i]
    <3>1. \A c, d \in Seq(Flit) :
            /\ c \o d \in Seq(Flit) /\ Len(c \o d) = Len(c) + Len(d)
            /\ \A i \in 1..Len(c) : (c \o d)[i] = c[i]
            /\ \A i \in 1..Len(d) : (c \o d)[Len(c) + i] = d[i]
      OBVIOUS
    <3>2. g \in Seq(Flit)
      BY <1>4
    <3> QED BY <2>1, <3>1, <3>2
  <2>3. /\ \A i \in 1..(n - 1) : q[i].tail => q[i + 1].head
        /\ n # 0 => q[1].head \/ q[1].vc \in VCIds
    BY <1>5, <2>1 DEF Whole
  <2> HIDE DEF n, m, s
  <2>4. \A i \in 1..(Len(s) - 1) : s[i].tail => s[i + 1].head
    <3>1. ASSUME NEW i \in 1..(Len(s) - 1), s[i].tail PROVE s[i + 1].head
      <4>1. CASE i < n
        <5>1. i \in 1..(n - 1) /\ i \in 1..n /\ i + 1 \in 1..n
          BY <2>1, <4>1
        <5> QED BY <2>2, <2>3, <3>1, <5>1
      <4>2. CASE i = n
        <5>1. s[i + 1] = g[1]
          BY <2>1, <2>2, <4>2
        <5> QED BY <1>4, <5>1
      <4>3. CASE i > n
        <5>1. i - n \in 1..(m - 1) /\ i - n \in 1..m /\ n + (i - n) = i
          BY <2>1, <2>2, <4>3
        <5>2. s[i] = g[i - n]
          BY <2>2, <5>1
        <5> QED BY <1>4, <3>1, <5>1, <5>2 DEF m
      <4> QED BY <2>1, <2>2, <4>1, <4>2, <4>3
    <3> QED BY <3>1
  <2>5. s[Len(s)].tail
    <3>1. m \in 1..m
      BY <2>1
    <3> QED BY <1>4, <2>2, <3>1 DEF m
  <2>6. s[1].head \/ s[1].vc \in VCIds
    <3>1. CASE n = 0
      <4>1. 1 \in 1..m /\ n + 1 = 1
        BY <2>1, <3>1
      <4> QED BY <1>4, <2>2, <4>1
    <3>2. CASE n # 0
      <4>1. 1 \in 1..n
        BY <2>1, <3>2
      <4> QED BY <2>2, <2>3, <3>2, <4>1
    <3> QED BY <3>1, <3>2
  <2> QED BY <2>2, <2>4, <2>5, <2>6 DEF Whole, s
<1>6. DOMAIN partial' = Nodes /\ \A n \in Nodes : Whole(partial'[n])
  <2>1. Source[p] \in Nodes
    BY FlitAssumption, Zenon
  <2>2. \A n \in Nodes : partial'[n] = IF n = Source[p] THEN partial[n] \o g ELSE partial[n]
    BY <1>1, <1>3 DEF g
  <2>3. DOMAIN partial' = Nodes
    BY <1>1, <1>3
  <2> QED BY <1>3, <1>5, <2>2, <2>3
<1>7. (DOMAIN partial = Nodes /\ \A n \in Nodes : Whole(partial[n]))'
  BY <1>6 DEF Whole
<1>8. Places' = Places /\ (Eventful' <=> Eventful)
  BY <1>2 DEF Places, Nets, Eventful
<1>9. ASSUME NEW x \in Places
      PROVE  (IF Eventful THEN EventInv(router[x]) ELSE RouterInv(router[x]))'
  <2>1. PICK r : r = router[x]
    OBVIOUS
  <2>2. router'[x] = r
    BY <1>2, <2>1
  <2>3. CASE Eventful
    <3>1. EventInv(r)
      BY <1>3, <2>1, <2>3
    <3>2. EventInv(r)'
      BY <3>1, EventStays
    <3> QED BY <1>8, <2>2, <2>3, <3>2
  <2>4. CASE ~Eventful
    <3>1. RouterInv(r)
      BY <1>3, <2>1, <2>4
    <3>2. RouterInv(r)'
      BY <1>2, <3>1, RouterStays
    <3> QED BY <1>8, <2>2, <2>4, <3>2
  <2> QED BY <2>3, <2>4
<1>10. (~Eventful => \A w \in flits : w.flit \in SentFlit)'
  BY <1>2, <1>3, <1>8 DEF SentFlit
<1> QED BY <1>2, <1>3, <1>7, <1>8, <1>9, <1>10 DEF NetworkInv

-----------------------------------------------------------------------------
\* The network: its invariant, and the bound.

\* A stutter keeps the invariant.
LEMMA NetworkStutters ==
  ASSUME NetworkInv, UNCHANGED vars
  PROVE  NetworkInv'
<1>1. config' = config /\ router' = router /\ flits' = flits /\ partial' = partial
  BY DEF vars
<1>2. /\ config \in Configs /\ DOMAIN router = Places
      /\ \A x \in Places : IF Eventful THEN EventInv(router[x]) ELSE RouterInv(router[x])
      /\ ~Eventful => \A w \in flits : w.flit \in SentFlit
      /\ DOMAIN partial = Nodes /\ \A n \in Nodes : Whole(partial[n])
  BY DEF NetworkInv
<1>3. Places' = Places /\ (Eventful' <=> Eventful)
  BY <1>1 DEF Places, Nets, Eventful
<1>4. ASSUME NEW x \in Places
      PROVE  (IF Eventful THEN EventInv(router[x]) ELSE RouterInv(router[x]))'
  <2>1. PICK r : r = router[x]
    OBVIOUS
  <2>2. router'[x] = r
    BY <1>1, <2>1
  <2>3. CASE Eventful
    <3>1. EventInv(r)
      BY <1>2, <2>1, <2>3
    <3>2. EventInv(r)'
      BY <3>1, EventStays
    <3> QED BY <1>3, <2>2, <2>3, <3>2
  <2>4. CASE ~Eventful
    <3>1. RouterInv(r)
      BY <1>2, <2>1, <2>4
    <3>2. RouterInv(r)'
      BY <1>1, <3>1, RouterStays
    <3> QED BY <1>3, <2>2, <2>4, <3>2
  <2> QED BY <2>3, <2>4
<1>5. (DOMAIN partial = Nodes /\ \A n \in Nodes : Whole(partial[n]))'
  BY <1>1, <1>2 DEF Whole
<1>6. (~Eventful => \A w \in flits : w.flit \in SentFlit)'
  BY <1>1, <1>2, <1>3 DEF SentFlit
<1> QED BY <1>1, <1>2, <1>3, <1>4, <1>5, <1>6 DEF NetworkInv

\* How many flits cross to an output is a number.
LEMMA CrossingNat ==
  ASSUME NEW rt, NEW S, rt.crossbar_flits \in Seq(S), NEW o
  PROVE  CrossingTo(rt, o) \in Nat
<1> DEFINE cf == rt.crossbar_flits
           at == {i \in 1..Len(cf) : cf[i] \in Toward(rt, o)}
<1>1. CrossingTo(rt, o) = Cardinality(at)
  BY SelectedCount DEF CrossingTo
<1>2. IsFiniteSet(1..Len(cf)) /\ at \subseteq 1..Len(cf)
  BY FS_Interval
<1> QED BY <1>1, <1>2, FS_Subset, FS_CardinalityType

\* The invariant bounds the output buffers as the code asserts.
LEMMA BufferBound ==
  ASSUME NetworkInv
  PROVE  OutputBufferBound
<1>1. config \in Configs
  BY DEF NetworkInv
<1>2. OutputBufferSize \in Nat \ {0} /\ config.output_speedup \in Nat \ {0}
  BY <1>1, Sizes, ConfigFacts
<1>3. ASSUME NEW x \in Places, NEW o \in Ports
      PROVE  Len(router[x].output_buffer[o]) + CrossingTo(router[x], o) <=
               OutputBufferSize + 2 * config.output_speedup - 1
  <2> DEFINE n == Len(router[x].output_buffer[o]) + CrossingTo(router[x], o)
  <2>1. n \in Nat
    <3>1. CASE Eventful
      <4>1. EventInv(router[x])
        BY <1>3, <3>1 DEF NetworkInv
      <4>2. CrossingTo(router[x], o) \in Nat
        <5>1. PICK S : router[x].crossbar_flits \in Seq(S)
          BY <4>1 DEF EventInv
        <5> QED BY <5>1, CrossingNat
      <4>3. \E S : router[x].output_buffer[o] \in Seq(S)
        BY <4>1 DEF EventInv
      <4> QED BY <4>2, <4>3
    <3>2. CASE ~Eventful
      <4>1. Outgoing(router[x])
        BY <1>3, <3>2 DEF NetworkInv, RouterInv, RouterCore
      <4>2. CrossingTo(router[x], o) \in Nat
        BY <4>1, CrossingNat DEF Outgoing
      <4>3. router[x].output_buffer[o] \in Seq(SentFlit)
        BY <4>1 DEF Outgoing
      <4> QED BY <4>2, <4>3
    <3> QED BY <3>1, <3>2
  <2>2. CASE Eventful
    <3>1. n <= 1
      BY <1>3, <2>2 DEF NetworkInv, EventInv
    <3> HIDE DEF n
    <3>2. n <= OutputBufferSize + 2 * config.output_speedup - 1
      BY <1>2, <2>1, <3>1
    <3> QED BY <3>2 DEF n
  <2>3. CASE ~Eventful
    <3>1. Bounded(n)
      BY <1>3, <2>3 DEF NetworkInv, RouterInv
    <3> HIDE DEF n
    <3>2. n <= OutputBufferSize + 2 * config.output_speedup - 1
      BY <1>2, <2>1, <3>1 DEF Bounded
    <3> QED BY <3>2 DEF n
  <2> QED BY <2>2, <2>3
<1> QED BY <1>3 DEF OutputBufferBound, CrossingTo

\* The inductive invariant of the network: every router's pipeline lists hold
\* the input VCs of the right states once, its crossbar at most output_speedup
\* flits for an output, its allocators the matchings they ought to; flits under
\* way have a VC, and packets wait whole at the nodes.
THEOREM NetworkInvariant == Spec => []NetworkInv
<1>1. Init => NetworkInv
  BY NetworkInit
<1>2. NetworkInv /\ [Next]_vars => NetworkInv'
  BY AdvanceKept, GenerateKept, NetworkStutters DEF Next
<1> QED BY <1>1, <1>2, PTL DEF Spec

\* No output buffer of a router ever holds more than its limit, what is in the
\* crossbar counted: the assertion of _SwitchUpdate (iq_router.cpp:2207) cannot
\* fail, for any network and routing function and all allocators of IsType.
THEOREM OutputBuffersBounded == Spec => []OutputBufferBound
<1>1. Spec => []NetworkInv
  BY NetworkInvariant
<1>2. NetworkInv => OutputBufferBound
  BY BufferBound
<1> QED BY <1>1, <1>2, PTL
=============================================================================
