------------------------------ MODULE IQRouter ------------------------------
(***************************************************************************)
(* The input-queued router of BookSim (routers/iq_router.cpp): a pipeline  *)
(* of routing, VC allocation, switch allocation and crossbar, a cycle      *)
(* each.  A router is a record; the phases of a cycle are operators on it. *)
(*                                                                         *)
(* Every stage of the pipeline has a list of what waits for it: the input  *)
(* VCs to be routed, to get an output VC and to get the switch (or that    *)
(* hold it), and the flits in the crossbar.  What a stage adds to the list *)
(* of the next one is looked at in the next cycle (its time is -1 until    *)
(* then).                                                                  *)
(*                                                                         *)
(* With "speculative" the head of a packet asks for the switch while it    *)
(* asks for an output VC; with the "piggyback" VC allocator it gets the    *)
(* output VC with the switch.  Lookahead routing and NOQ are left out.     *)
(***************************************************************************)
EXTENDS BufferState, Allocators

CONSTANTS
  NumPorts,            \* of inputs, and of outputs
  OutputBufferSize

ASSUME RouterAssumption == NumPorts \in Nat \ {0} /\ OutputBufferSize \in Nat \ {0}

\* A held switch is looked up in the output buffers by its expanded output; the
\* piggybacked VC is chosen when the switch is granted; a shared buffer has room
\* for one flit a cycle; and a head that speculates without a look at what it
\* could get does not see that the output buffer is full: all of it is right
\* for one flit per output only.
ASSUME ConfigAssumption ==
  \A c \in Configs :
    /\ c.input_speedup \in Nat \ {0} /\ c.output_speedup \in Nat \ {0} /\ c.subnets \in Nat
    /\ \/ c.hold_switch_for_packet \/ c.buffer_policy # "private"
       \/ c.vc_allocator.name = "piggyback"
       \/ c.speculative /\ ~c.spec_check_elig
       => c.output_speedup = 1
    /\ c.vc_allocator.name = "piggyback" => c.speculative
    /\ c.spec_check_cred => c.spec_check_elig
    /\ \/ c.vc_allocator.name = "piggyback"
       \/ IsType(c.vc_allocator, NumPorts * NumVCs, NumPorts * NumVCs)
    /\ IsType(c.sw_allocator, NumPorts * c.input_speedup, NumPorts * c.output_speedup)
    /\ \/ ~c.speculative \/ c.spec_sw_allocator.name = "prio"
       \/ IsType(c.spec_sw_allocator, NumPorts * c.input_speedup, NumPorts * c.output_speedup)

Ports == 0..(NumPorts - 1)
InVCs == Ports \X VCIds
ExpandedInputs == 0..(NumPorts * config.input_speedup - 1)

IdleVC == [flits |-> <<>>, state |-> "idle", route_set |-> {}, out_port |-> -1, out_vc |-> -1]

NewRouter ==
  [buf |-> [iv \in InVCs |-> IdleVC],
   next_buf |-> [o \in Ports |-> NewBufferState],
   route_vcs |-> <<>>, vc_alloc_vcs |-> <<>>, sw_alloc_vcs |-> <<>>, sw_hold_vcs |-> <<>>,
   crossbar_flits |-> <<>>,
   vc_allocator |-> NewAllocator(config.vc_allocator, NumPorts * NumVCs, NumPorts * NumVCs),
   sw_allocator |-> NewAllocator(config.sw_allocator, NumPorts * config.input_speedup,
                                 NumPorts * config.output_speedup),
   spec_sw_allocator |-> NewAllocator(config.spec_sw_allocator, NumPorts * config.input_speedup,
                                      NumPorts * config.output_speedup),
   sw_rr_offset |-> [ei \in ExpandedInputs |-> ei % config.input_speedup],
   vc_rr_offset |-> [o \in Ports |-> -1],
   held |-> <<>>,      \* expanded inputs: the VC and the expanded output of _switch_hold_*
   out_queue_credits |-> [i \in Ports |-> {}],
   output_buffer |-> [o \in Ports |-> <<>>],
   credit_buffer |-> [i \in Ports |-> <<>>]]

FrontFlit(rt, iv) == Head(rt.buf[iv].flits)

Piggyback == config.vc_allocator.name = "piggyback"
SpecAllocator == config.speculative /\ config.spec_sw_allocator.name # "prio"

\* With neither inputs nor anything on a list a cycle does nothing (_active).
Active(rt, arrivals, credits) ==
  \/ DOMAIN arrivals # {} \/ DOMAIN credits # {}
  \/ rt.route_vcs # <<>> \/ rt.vc_alloc_vcs # <<>> \/ rt.sw_alloc_vcs # <<>>
  \/ rt.sw_hold_vcs # <<>> \/ rt.crossbar_flits # <<>>

\* The ports of a set in their order, and the input VCs at which there are flits.
PortsIn(S) == Selected([k \in 1..NumPorts |-> k - 1], S)

VCsOf(arrivals) ==
  LET from == PortsIn(DOMAIN arrivals) IN [k \in DOMAIN from |-> <<from[k], arrivals[from[k]].vc>>]

\* An input VC with a flit that comes in.
Filled(v, f) ==
  [v EXCEPT !.flits = Append(@, f), !.state = IF @ = "idle" THEN "routing" ELSE @]

\* _InputQueuing: arrivals[i] is the flit of input i, credits[o] the credit of
\* output o.  The head of a packet is routed if it finds its VC idle; a flit
\* that finds the VC of its packet empty asks for the switch again.
InputQueuing(rt, arrivals, credits) ==
  LET filled == {<<i, arrivals[i].vc>> : i \in DOMAIN arrivals}
      in_order == VCsOf(arrivals)
      idle == {iv \in filled : rt.buf[iv].state = "idle"}
      resumes == {iv \in filled : rt.buf[iv].state = "active" /\ rt.buf[iv].flits = <<>>}
  IN [rt EXCEPT
       !.buf = Evaluated([iv \in InVCs |-> IF iv \in filled THEN Filled(@[iv], arrivals[iv[1]])
                                           ELSE @[iv]]),
       !.route_vcs = @ \o Selected(in_order, idle),
       !.sw_alloc_vcs = @ \o Selected(in_order, resumes),
       !.next_buf = Evaluated([o \in Ports |->
          IF o \in DOMAIN credits THEN ProcessCredit(@[o], credits[o].vcs) ELSE @[o]])]

-----------------------------------------------------------------------------
(* The decisions of the cycle (the Evaluate phases) *)

\* An empty VC is preferred by adding the least integer to the priority of the
\* others, an input VC that speculates is put behind by the same.
Least == -1000000

VCPriority(buf, out, vc) ==
  out.pri + IF config.vc_prioritize_empty /\ ~IsEmptyFor(buf, vc) THEN Least ELSE 0

Indexed(iv) ==
  IF config.vc_shuffle_requests THEN iv[2] * NumPorts + iv[1] ELSE iv[1] * NumVCs + iv[2]

\* _VCAllocEvaluate: the requests are for all free VCs of the route set.
VCRequests(rt) ==
  LET usable(out) == {vc \in out.lo..out.hi :
                        /\ IsAvailableFor(rt.next_buf[out.port], vc)
                        /\ config.vc_busy_when_full => ~IsFullFor(rt.next_buf[out.port], vc)}
      asked(iv, out) == {Indexed(iv)} \X {out.port * NumVCs + vc : vc \in usable(out)}
      asks == UNION {{[out |-> out, for |-> asked(iv, out)] : out \in rt.buf[iv].route_set} :
                     iv \in Range(rt.vc_alloc_vcs)}
      pri(r) == LET out == (CHOOSE ask \in asks : r \in ask.for).out
                IN VCPriority(rt.next_buf[out.port], out, r[2] % NumVCs)
  IN Evaluated([r \in UNION {ask.for : ask \in asks} |-> [in_pri |-> pri(r), out_pri |-> 0]])

VCAllocate(rt) ==
  IF rt.vc_alloc_vcs = <<>> THEN rt.vc_allocator ELSE Allocate(rt.vc_allocator, VCRequests(rt))

\* The VCs of an input share input_speedup ports of the switch, the inputs
\* output_speedup ports of every output.
ExpandedInput(iv) == iv[1] * config.input_speedup + (iv[2] % config.input_speedup)
ExpandedOutput(iv, o) == o * config.output_speedup + (iv[1] % config.output_speedup)

BufferedAt(rt, o) == Len(rt.output_buffer[o])

\* Mutant of MaySend: the output buffer is not looked at.
MaySendBlindly(rt, iv) == ~IsFullFor(rt.next_buf[rt.buf[iv].out_port], rt.buf[iv].out_vc)

\* There is a credit, and room in the output buffer.
MaySend(rt, iv) ==
  /\ ~IsFullFor(rt.next_buf[rt.buf[iv].out_port], rt.buf[iv].out_vc)
  /\ BufferedAt(rt, rt.buf[iv].out_port) < OutputBufferSize

\* A head that speculates looks for a VC it could get, as far as it is told to.
MaySpeculate(rt, out) ==
  config.spec_check_elig =>
    \E vc \in out.lo..out.hi :
      /\ IsAvailableFor(rt.next_buf[out.port], vc)
      /\ BufferedAt(rt, out.port) < OutputBufferSize
      /\ config.spec_check_cred => ~IsFullFor(rt.next_buf[out.port], vc)

Speculates(rt, iv) == rt.buf[iv].state = "vc_alloc"

\* One that may not for one of its outputs is stalled, whatever it gets for the
\* others.
Stalled(rt, iv) ==
  IF Speculates(rt, iv) THEN \E out \in rt.buf[iv].route_set : ~MaySpeculate(rt, out)
  ELSE ~MaySend(rt, iv)

\* _SWAllocEvaluate: the outputs a VC asks the switch for, unless the switch is
\* held.
SWOutputs(rt, iv) ==
  LET wanted ==
        IF Speculates(rt, iv)
        THEN {out.port : out \in {u \in rt.buf[iv].route_set : MaySpeculate(rt, u)}}
        ELSE {o \in {rt.buf[iv].out_port} : MaySend(rt, iv)}
      free(eo) == \A ei \in DOMAIN rt.held : rt.held[ei].output # eo
  IN {eo \in {ExpandedOutput(iv, o) : o \in wanted} :
      ExpandedInput(iv) \notin DOMAIN rt.held /\ free(eo)}

\* _SWAllocAddReq: of the VCs with the same request, the first in turn; with
\* allocators of their own those that speculate only compete with each other.
Request(rt, ei, pri) ==
  LET vc == FirstFrom(Highest(pri), rt.sw_rr_offset[ei], NumVCs)
  IN [vc |-> vc, in_pri |-> pri[vc], out_pri |-> pri[vc]]

SWRequests(rt, outputs) ==
  LET asks(r) == {iv \in DOMAIN outputs : ExpandedInput(iv) = r[1] /\ r[2] \in outputs[iv]}
      pri(r) == [vc \in {iv[2] : iv \in asks(r)} |->
                   IF Speculates(rt, <<r[1] \div config.input_speedup, vc>>) THEN Least ELSE 0]
  IN Evaluated([r \in UNION {{ExpandedInput(iv)} \X outputs[iv] : iv \in DOMAIN outputs} |->
                  Request(rt, r[1], pri(r))])

\* The allocators with what they grant, and their requests.
SWGrants(rt, requests, spec_requests) ==
  LET runs == rt.sw_alloc_vcs # <<>>
  IN [requests |-> requests, spec_requests |-> spec_requests,
      sw |-> IF runs THEN Allocate(rt.sw_allocator, requests) ELSE rt.sw_allocator,
      spec |-> IF runs /\ SpecAllocator THEN Allocate(rt.spec_sw_allocator, spec_requests)
               ELSE rt.spec_sw_allocator]

SWAllocate(rt) ==
  LET apart == {iv \in Range(rt.sw_alloc_vcs) : SpecAllocator /\ Speculates(rt, iv)}
      outputs(ivs) == Evaluated([iv \in ivs |-> SWOutputs(rt, iv)])
  IN SWGrants(rt, SWRequests(rt, outputs(Range(rt.sw_alloc_vcs) \ apart)),
              SWRequests(rt, outputs(apart)))

HasRequests(requests, eo) == \E r \in DOMAIN requests : r[2] = eo

\* A VC has the switch if its request is the granted one; a speculative one has
\* to leave to the others what they ask for, or what they got.
Granted(rt, alloc, iv) ==
  LET ei == ExpandedInput(iv)
      eo == alloc.spec.inmatch[ei]
  IN /\ ~Stalled(rt, iv)
     /\ IF ei \in DOMAIN alloc.sw.inmatch
        THEN alloc.requests[<<ei, alloc.sw.inmatch[ei]>>].vc = iv[2]
        ELSE /\ ei \in DOMAIN alloc.spec.inmatch
             /\ alloc.spec_requests[<<ei, eo>>].vc = iv[2]
             /\ IF config.spec_mask_by_reqs THEN ~HasRequests(alloc.requests, eo)
                ELSE eo \notin DOMAIN alloc.sw.outmatch

GrantedOutput(alloc, iv) ==
  LET ei == ExpandedInput(iv)
  IN (IF ei \in DOMAIN alloc.sw.inmatch THEN alloc.sw.inmatch[ei] ELSE alloc.spec.inmatch[ei])
       \div config.output_speedup

\* The output VCs a head could be given with the switch.
PiggybackVCs(rt, iv, o) ==
  UNION {{[vc |-> vc, pri |-> VCPriority(rt.next_buf[o], out, vc)] :
          vc \in {v \in out.lo..out.hi : /\ IsAvailableFor(rt.next_buf[o], v)
                                         /\ ~IsFullFor(rt.next_buf[o], v)}} :
         out \in {u \in rt.buf[iv].route_set : u.port = o}}

\* The grant of a head that speculated counts if it has a VC of that output.
Confirmed(rt, alloc, vc_alloc, iv) ==
  LET o == GrantedOutput(alloc, iv)
      match == vc_alloc.inmatch[Indexed(iv)]
  IN Speculates(rt, iv) =>
       IF Piggyback THEN PiggybackVCs(rt, iv, o) # {}
       ELSE /\ Indexed(iv) \in DOMAIN vc_alloc.inmatch
            /\ match \div NumVCs = o
            /\ ~IsFullFor(rt.next_buf[o], match % NumVCs)

-----------------------------------------------------------------------------
(* Update *)

\* An input VC of which the head is routed, with the result.
WithRoute(v, result) ==
  [v EXCEPT !.state = "vc_alloc", !.route_set = result.outs, !.flits = <<result.f>> \o Tail(@)]

\* _RouteUpdate: routed[iv] is the result of the routing function.
RouteUpdate(rt, routed) ==
  [rt EXCEPT
    !.buf = Evaluated([iv \in InVCs |->
       IF iv \in DOMAIN routed THEN WithRoute(@[iv], routed[iv]) ELSE @[iv]]),
    !.sw_alloc_vcs = IF config.speculative THEN @ \o rt.route_vcs ELSE @,
    !.vc_alloc_vcs = IF Piggyback THEN @ ELSE @ \o rt.route_vcs,
    !.route_vcs = <<>>]

\* The VCs of won get their output VC, vc_of[iv] of output port_of[iv].
TakeOutputs(rt, won, port_of, vc_of) ==
  LET to(o) == {iv \in won : port_of[iv] = o}
      tags(o) == [vc \in {vc_of[iv] : iv \in to(o)} |->
                    LET iv == CHOOSE jv \in to(o) : vc_of[jv] = vc IN iv[1] * NumVCs + iv[2]]
  IN [rt EXCEPT
       !.buf = Evaluated([iv \in InVCs |->
          IF iv \in won THEN [@[iv] EXCEPT !.state = "active", !.route_set = {},
                                           !.out_port = port_of[iv], !.out_vc = vc_of[iv]]
          ELSE @[iv]]),
       !.next_buf = Evaluated([o \in Ports |->
          IF to(o) = {} THEN @[o] ELSE TakeBuffer(@[o], tags(o))])]

\* _VCAllocUpdate for the VCs that waited: those that failed wait again.
VCAllocUpdate(rt, waited, alloc) ==
  LET winners == {iv \in Range(waited) : Indexed(iv) \in DOMAIN alloc.inmatch}
      come == SubSeq(rt.vc_alloc_vcs, Len(waited) + 1, Len(rt.vc_alloc_vcs))
      taken == TakeOutputs(rt, winners,
                 [iv \in winners |-> alloc.inmatch[Indexed(iv)] \div NumVCs],
                 [iv \in winners |-> alloc.inmatch[Indexed(iv)] % NumVCs])
  IN [taken EXCEPT
       !.vc_alloc_vcs = come \o Selected(waited, Range(waited) \ winners),
       !.sw_alloc_vcs = IF config.speculative THEN @ ELSE @ \o Selected(waited, winners),
       !.vc_allocator = Cleared(alloc)]

\* Mutant of Departed: the next packet of the VC takes over its output VC.
DepartedActive(v) == [v EXCEPT !.flits = Tail(@)]

\* An input VC after its first flit has gone through the switch.
Departed(v) ==
  LET rest == Tail(v.flits)
  IN IF ~Head(v.flits).tail THEN [v EXCEPT !.flits = rest]
     ELSE [IdleVC EXCEPT !.flits = rest, !.state = IF rest = <<>> THEN "idle" ELSE "routing"]

\* The first flits of the VCs of a list go into the crossbar, their places are
\* credited; a VC that has a packet behind the tail is routed again.
Cross(rt, list) ==
  LET going == Range(list)
      flit(iv) == [FrontFlit(rt, iv) EXCEPT !.vc = rt.buf[iv].out_vc]
      sent(o) == {flit(iv) : iv \in {jv \in going : rt.buf[jv].out_port = o}}
      next_packet == {iv \in going : Departed(rt.buf[iv]).state = "routing"}
  IN [rt EXCEPT
       !.buf = Evaluated([iv \in InVCs |-> IF iv \in going THEN Departed(@[iv]) ELSE @[iv]]),
       !.next_buf = Evaluated([o \in Ports |->
          IF sent(o) = {} THEN @[o] ELSE SendingFlit(@[o], sent(o))]),
       !.crossbar_flits = @ \o [i \in DOMAIN list |->
          [f |-> flit(list[i]), output |-> rt.buf[list[i]].out_port]],
       !.out_queue_credits = [i \in Ports |-> @[i] \union {iv[2] : iv \in {jv \in going : jv[1] = i}}],
       !.route_vcs = @ \o Selected(list, next_packet)]

\* The VC of a list has more to send.
Continues(rt, iv) == rt.buf[iv].state = "active" /\ rt.buf[iv].flits # <<>>

\* _SWHoldEvaluate and _SWHoldUpdate: the VCs with a held switch send another
\* flit, or give the switch up.
SWHoldUpdate(rt, goes) ==
  LET list == rt.sw_hold_vcs
      crossed == Cross(rt, Selected(list, goes))
      keep == {iv \in Range(list) \intersect goes : Continues(crossed, iv)}
  IN [crossed EXCEPT
       !.held = [ei \in {ExpandedInput(iv) : iv \in keep} |-> @[ei]],
       !.sw_hold_vcs = Selected(list, keep),
       !.sw_alloc_vcs = @ \o Selected(list, Range(list) \ goes)]

\* The VC that is piggybacked on the grant of an output.
PiggybackVC(rt, iv, o) ==
  LET could == PiggybackVCs(rt, iv, o)
      best == {c \in could : \A d \in could : d.pri <= c.pri}
  IN FirstFrom({c.vc : c \in best}, rt.vc_rr_offset[o], NumVCs)

\* The heads that go get the output VCs with the switch.
Piggybacked(rt, port, vc) ==
  [TakeOutputs(rt, DOMAIN port, port, vc) EXCEPT
    !.vc_rr_offset = [o \in Ports |->
       IF o \in Range(port) THEN (vc[CHOOSE iv \in DOMAIN port : port[iv] = o] + 1) % NumVCs
       ELSE @[o]]]

TakePiggyback(rt, port) ==
  IF Piggyback
  THEN Piggybacked(rt, port, [iv \in DOMAIN port |-> PiggybackVC(rt, iv, port[iv])])
  ELSE rt

\* _SWAllocUpdate for the VCs that waited.  In the crossbar their flits follow
\* each other as they waited; a VC that is not done holds the switch or waits.
AfterCrossing(rt, waited, come, alloc, granted, goes) ==
  LET more == {iv \in goes : Continues(rt, iv)}
      holding == IF config.hold_switch_for_packet THEN more ELSE {}
      of(ivs, ei) == CHOOSE iv \in ivs : ExpandedInput(iv) = ei
      hold(iv) == [vc |-> iv[2], output |-> ExpandedOutput(iv, rt.buf[iv].out_port)]
  IN [rt EXCEPT
       !.sw_alloc_vcs = come \o Selected(waited, (Range(waited) \ goes) \union (more \ holding)),
       !.sw_hold_vcs = @ \o Selected(waited, holding),
       !.held = Override([ei \in {ExpandedInput(iv) : iv \in holding} |-> hold(of(holding, ei))], @),
       !.sw_rr_offset = Evaluated([ei \in ExpandedInputs |->
          IF \E iv \in granted : ExpandedInput(iv) = ei
          THEN (of(granted, ei)[2] + config.input_speedup) % NumVCs ELSE @[ei]]),
       !.sw_allocator = Cleared(alloc.sw),
       !.spec_sw_allocator = Cleared(alloc.spec)]

SWAllocUpdate(rt, waited, alloc, granted, goes) ==
  LET heads == {iv \in goes : Speculates(rt, iv)}
      come == SubSeq(rt.sw_alloc_vcs, Len(waited) + 1, Len(rt.sw_alloc_vcs))
  IN AfterCrossing(
       Cross(TakePiggyback(rt, [iv \in heads |-> GrantedOutput(alloc, iv)]),
             Selected(waited, goes)),
       waited, come, alloc, granted, goes)

\* What is in the crossbar for an output.
Toward(rt, o) == {x \in Range(rt.crossbar_flits) : x.output = o}

\* _SwitchUpdate: what was in the crossbar is in the output buffers.
SwitchUpdate(rt) ==
  LET crossed(o) == Selected(rt.crossbar_flits, Toward(rt, o))
      arriving(list) == [i \in DOMAIN list |-> list[i].f]
  IN [rt EXCEPT
       !.output_buffer = Evaluated([o \in Ports |-> @[o] \o arriving(crossed(o))]),
       !.crossbar_flits = <<>>]

\* The credits of this router and of the nodes have neither flag.
PlainCredit(vcs) == [vcs |-> vcs, head |-> FALSE, tail |-> FALSE]

\* _OutputQueuing: the credits of the cycle.
OutputQueuing(rt) ==
  [rt EXCEPT
    !.credit_buffer = [i \in Ports |-> IF rt.out_queue_credits[i] = {} THEN @[i]
                                       ELSE Append(@[i], PlainCredit(rt.out_queue_credits[i]))],
    !.out_queue_credits = [i \in Ports |-> {}]]

\* The phases of a router that has queued its inputs.  All of them follow what
\* was decided before the first; the crossbar is emptied of what was in it then.
UpdateWith(rt, routed, vc_alloc, alloc) ==
  LET granted == {iv \in Range(rt.sw_alloc_vcs) : Granted(rt, alloc, iv)}
      holding == {iv \in Range(rt.sw_hold_vcs) : MaySend(rt, iv)}
      allocated == VCAllocUpdate(RouteUpdate(SwitchUpdate(rt), routed), rt.vc_alloc_vcs, vc_alloc)
  IN OutputQueuing(
       SWAllocUpdate(SWHoldUpdate(allocated, holding), rt.sw_alloc_vcs, alloc, granted,
                     {iv \in granted : Confirmed(rt, alloc, vc_alloc, iv)}))

Update(rt, routed) == UpdateWith(rt, routed, VCAllocate(rt), SWAllocate(rt))

-----------------------------------------------------------------------------
(* WriteOutputs *)

\* _SendFlits and _SendCredits: the outputs and inputs that send, and what.
SentFlits(rt) ==
  [o \in {p \in Ports : rt.output_buffer[p] # <<>>} |-> Head(rt.output_buffer[o])]
SentCredits(rt) ==
  [i \in {p \in Ports : rt.credit_buffer[p] # <<>>} |-> Head(rt.credit_buffer[i])]

AfterSending(rt) ==
  LET rest(q) == IF q = <<>> THEN q ELSE Tail(q)
  IN [rt EXCEPT !.output_buffer = [o \in Ports |-> rest(@[o])],
                !.credit_buffer = [i \in Ports |-> rest(@[i])]]
=============================================================================
