-------------------------- MODULE MCBookSimNetwork --------------------------
(***************************************************************************)
(* A ring of four routers with a node each, and five packets longer than   *)
(* the buffers: a to d fill the ring in a circle, a and e meet at node 2.  *)
(* The configurations are TSim's own and one for every option of the       *)
(* router and the buffers.                                                 *)
(***************************************************************************)
EXTENDS BookSimNetwork

Cube == INSTANCE KNCube WITH gK <- 4, gN <- 1, gNumVCs <- NumVCs

\* The event router takes a single VC; in one dimension chaos_mesh is the way
\* of the mesh, through VC 0.  Only heads are ever routed; another flit would
\* leave the network, for WholePackets to see.
MCRoute(function, r, in, f) ==
  IF ~f.head THEN {Cube!Via(f, Cube!Local, Cube!AllVCs)}
  ELSE IF function = "chaos_mesh" THEN Cube!chaos_mesh(r, in, f) ELSE Cube!dim_order_torus(r, in, f)
MCOut(r, p) == Cube!OutChannel(r, p)
MCIn(r, p) == Cube!InChannel(r, p)
MCNodes == 0..3

MCPackets == {"a", "b", "c", "d", "e"}
MCSource == [a |-> 0, b |-> 1, c |-> 2, d |-> 3, e |-> 3]
MCDest == [a |-> 2, b |-> 3, c |-> 0, d |-> 1, e |-> 2]
MCSize == [p \in MCPackets |-> 9]

\* What routing changes is the phase.
MCFlit ==
  {[Flits(p, net)[i] EXCEPT !.vc = vc, !.ph = ph] :
     p \in MCPackets, i \in 1..9, net \in 0..1, vc \in -1..(NumVCs - 1), ph \in -1..1}

\* With two subnets every packet can take either, so there are fewer of them.
\* To the event router, packets for different nodes only: nodes return no
\* credits with the flag for the tail, so a second one never arrives.
MCOffered(c) ==
  IF c.subnets = 1 THEN IF c.router = "event" THEN {"a", "b", "c", "d"} ELSE MCPackets
  ELSE {"a", "d", "e"}

iSLIPOnce == [name |-> "islip", iters |-> 1]
Separable(name, kind, groups) == [name |-> name, arb |-> [kind |-> kind, groups |-> groups]]

\* The defaults of booksim_config.cpp.
Default ==
  [vc_allocator |-> iSLIPOnce, sw_allocator |-> iSLIPOnce, spec_sw_allocator |-> [name |-> "prio"],
   speculative |-> FALSE, spec_check_elig |-> TRUE, spec_check_cred |-> TRUE,
   spec_mask_by_reqs |-> FALSE,
   vc_busy_when_full |-> FALSE, vc_prioritize_empty |-> FALSE, vc_shuffle_requests |-> FALSE,
   hold_switch_for_packet |-> FALSE, wait_for_tail_credit |-> FALSE,
   buffer_policy |-> "private", private_bufs |-> NumVCs, private_buf_size |-> 1,
   max_held_slots |-> NumVCs * VCBufSize,
   input_speedup |-> 1, output_speedup |-> 1, subnets |-> 1, router |-> "iq", vct |-> FALSE,
   routing_function |-> "dim_order_torus"]

EventConfig ==
  [Default EXCEPT !.router = "event", !.routing_function = "chaos_mesh",
                  !.wait_for_tail_credit = TRUE]

TSimConfig == [Default EXCEPT !.input_speedup = 2, !.output_speedup = 2]

MCConfigs ==
  {TSimConfig,
   [TSimConfig EXCEPT !.subnets = 2],
   [Default EXCEPT !.speculative = TRUE, !.vc_allocator = [name |-> "max_size"],
                   !.sw_allocator = Separable("separable_input_first", "round_robin", 1)],
   [Default EXCEPT !.speculative = TRUE, !.vc_allocator = [name |-> "wavefront"],
                   !.sw_allocator = [name |-> "rr_wavefront"],
                   !.spec_sw_allocator = iSLIPOnce, !.spec_mask_by_reqs = TRUE],
   [Default EXCEPT !.speculative = TRUE, !.spec_check_cred = FALSE, !.spec_check_elig = FALSE,
                   !.vc_allocator = [name |-> "loa"], !.sw_allocator = [name |-> "max_size"],
                   !.spec_sw_allocator = [name |-> "wavefront"], !.vc_busy_when_full = TRUE],
   [Default EXCEPT !.speculative = TRUE, !.vc_allocator = [name |-> "piggyback"],
                   !.sw_allocator = [name |-> "select", iters |-> 1],
                   !.vc_prioritize_empty = TRUE],
   [Default EXCEPT !.hold_switch_for_packet = TRUE, !.sw_allocator = [name |-> "loa"],
                   !.vc_allocator = Separable("separable_output_first", "matrix", 1)],
   [Default EXCEPT !.hold_switch_for_packet = TRUE, !.speculative = TRUE,
                   !.sw_allocator = Separable("separable_output_first", "matrix", 3)],
   [Default EXCEPT !.wait_for_tail_credit = TRUE, !.vc_busy_when_full = TRUE],
   [Default EXCEPT !.buffer_policy = "shared", !.vc_prioritize_empty = TRUE,
                   !.vc_allocator = Separable("separable_input_first", "round_robin", 2)],
   [Default EXCEPT !.buffer_policy = "limited", !.max_held_slots = 4],
   [Default EXCEPT !.buffer_policy = "dynamic", !.vc_shuffle_requests = TRUE],
   [Default EXCEPT !.buffer_policy = "shifting", !.wait_for_tail_credit = TRUE],
   EventConfig,
   [EventConfig EXCEPT !.vct = TRUE]}

-----------------------------------------------------------------------------
(* The allocators by themselves: all requests of two inputs for three      *)
(* outputs, to an allocator that is new and to one that has been used.     *)

RequestSets ==
  {[r \in R |-> [in_pri |-> (r[1] + r[2]) % 2, out_pri |-> r[1] % 2]] :
   R \in SUBSET ((0..1) \X (0..2))}

Used(a) == Cleared(Allocate(a, [r \in (0..1) \X (0..2) |-> [in_pri |-> 0, out_pri |-> 0]]))

Fresh(type) == NewAllocator(type, 2, 3)
Allocations(type, requests) == {Allocate(a, requests) : a \in {Fresh(type), Used(Fresh(type))}}

\* PIM draws, so none of the configurations has it.
PIMAllocations(requests) == PIM(Fresh([name |-> "pim", iters |-> 2]), requests)

Types ==
  {[name |-> n] : n \in {"loa", "wavefront", "rr_wavefront"}} \union
  {[name |-> "islip", iters |-> k] : k \in 1..2} \union
  {[name |-> "select", iters |-> 1]} \union
  {Separable("separable_input_first", kind, 1) : kind \in {"round_robin", "matrix"}} \union
  {Separable("separable_output_first", kind, 1) : kind \in {"round_robin", "matrix"}}

\* A matching of requests, and not an empty one if there are any.
IsMatching(a, requests) ==
  /\ \A i \in DOMAIN a.inmatch :
       <<i, a.inmatch[i]>> \in DOMAIN requests /\ a.outmatch[a.inmatch[i]] = i
  /\ \A o \in DOMAIN a.outmatch : a.inmatch[a.outmatch[o]] = o
  /\ requests # <<>> => a.inmatch # <<>>

Matchings(R) == {M \in SUBSET R : \A r, q \in M : (r[1] = q[1] \/ r[2] = q[2]) => r = q}

ASSUME AllocatorsMatch ==
  \A requests \in RequestSets :
    /\ \A type \in Types : \A a \in Allocations(type, requests) : IsMatching(a, requests)
    /\ \A a \in PIMAllocations(requests) : IsMatching(a, requests)

\* MaxSizeMatch finds as many as there can be, the wavefront as many as fit.
\* Between three inputs and three outputs there are paths of five requests.
Squares == {[r \in R |-> [in_pri |-> 0, out_pri |-> 0]] : R \in SUBSET ((0..2) \X (0..2))}
MaxSize == NewAllocator([name |-> "max_size"], 3, 3)
MaxSizes(requests) ==
  {Allocate(a, requests) :
     a \in {MaxSize, Cleared(Allocate(MaxSize, [r \in {<<0, 1>>} |-> [in_pri |-> 0, out_pri |-> 0]]))}}

ASSUME MaxSizeIsMaximum ==
  \E all \in {Matchings((0..2) \X (0..2))} :
    \A requests \in Squares : \A a \in MaxSizes(requests) :
      /\ IsMatching(a, requests)
      /\ \A M \in all : M \subseteq DOMAIN requests => Cardinality(M) <= Cardinality(DOMAIN a.inmatch)

ASSUME WavefrontIsMaximal ==
  \A requests \in RequestSets, n \in {"wavefront", "rr_wavefront"} :
    \A a \in Allocations([name |-> n], requests) :
      \A r \in DOMAIN requests : r[1] \in DOMAIN a.inmatch \/ r[2] \in DOMAIN a.outmatch

\* More iterations of SelAlloc lose grants: it forgets none of the earlier ones.
ASSUME SelectTwiceIsNone ==
  \E requests \in RequestSets :
    \E a \in Allocations([name |-> "select", iters |-> 2], requests) : ~IsMatching(a, requests)
=============================================================================
