------------------------------ MODULE FastCore ------------------------------
(***************************************************************************)
(* The four modules of a FastCore: CoreDynUnit walks over the neurons of   *)
(* the core and sends an axon for every spike, FastSynQueue lets the       *)
(* synapses of the core's own timestep pass, CoreAccUnit accumulates them, *)
(* and FastCoreTSMgr takes the core to the next timestep.  Each operator   *)
(* is the Operation of a module: from its members and the messages it is   *)
(* shown to its new members, the messages it writes and those it used.     *)
(*                                                                         *)
(* Three members are history, for the properties only: n counts the        *)
(* timesteps a module has started, of which the code keeps the parity,     *)
(* owed the synapses of the axons it has sent, got the synapses that have  *)
(* been accumulated.  A message carries the timestep it was born in.       *)
(***************************************************************************)
EXTENDS Integers, Sequences, FiniteSets, TLC

CONSTANTS
  NumNeurons, DynLatency, Depth,   \* of CoreDynUnit; Depth = pipeline_depth + 6
  AccDepth,                        \* acc_depth of CoreAccUnit
  Props,                           \* propagators
  PropOf,                          \* prop_idx_ of a core
  AxonLen                          \* synlen_table of a core: entries of an axon

ASSUME CoreAssumption ==
  /\ NumNeurons \in Nat \ {0, 1} /\ DynLatency \in Nat
  /\ Depth \in 7..15 /\ AccDepth \in Nat \ {0}

Result(s, outs, used) == [st |-> s, outs |-> outs, used |-> used]
Nothing == <<>>
OutIf(cond, name, msg) == IF cond THEN name :> msg ELSE Nothing

Parity(n) == n % 2
Signal(v) == [value |-> v]

-----------------------------------------------------------------------------
(* CoreDynUnit *)

DynInit(sections) ==
  [n |-> 0, parity |-> 0, idx |-> NumNeurons, counter |-> DynLatency,
   pipe |-> {}, spike |-> {}, idle |-> TRUE, finish |-> TRUE,
   sections |-> sections, trace |-> <<>>, fresh |-> TRUE, owed |-> 0]

\* `(state << 1) & mask' on the positions of the set bits.
Shift(bits, width) == {b + 1 : b \in bits} \intersect 1..(width - 1)

\* The spike script has one instruction per section, at its first cycle.
Instructed(s) ==
  IF s.fresh /\ s.sections # <<>>
  THEN [s EXCEPT !.trace = Head(s.sections), !.fresh = FALSE]
  ELSE [s EXCEPT !.fresh = FALSE]

NextSection(s) ==
  IF s.sections = <<>> THEN s
  ELSE [s EXCEPT !.sections = Tail(@), !.fresh = TRUE]

\* A parity that differs starts the walk over the neurons.
DynStart(s, in, w) ==
  IF w \in DOMAIN in /\ in[w].value # s.parity
  THEN [s EXCEPT !.parity = in[w].value, !.idx = 0, !.n = @ + 1]
  ELSE s

\* One neuron every DynLatency + 1 cycles.
DynWalk(s, spikes) ==
  IF s.idx = NumNeurons THEN s
  ELSE IF s.counter > 0 THEN [s EXCEPT !.counter = @ - 1]
  ELSE [s EXCEPT !.idx = @ + 1, !.counter = DynLatency,
                 !.trace = IF spikes THEN Tail(@) ELSE @,
                 !.spike = IF spikes THEN @ \union {0} ELSE @,
                 !.pipe = IF spikes THEN @ ELSE @ \union {0},
                 !.finish = @ \/ s.idx + 1 = NumNeurons]

CoreDynUnit(c, s, in) ==
  LET ts == <<"coreTS", c>>
      started == DynStart(Instructed(s), in, ts)
      shifted == [started EXCEPT !.pipe = Shift(@, Depth - 2), !.spike = Shift(@, Depth)]
      walks == shifted.idx # NumNeurons /\ shifted.counter = 0
      spikes == walks /\ shifted.trace # <<>> /\ Head(shifted.trace) = shifted.idx
      axon == [len |-> AxonLen[c][shifted.idx], prop |-> PropOf[c], delay |-> 0,
               born |-> shifted.n]
      walked == [DynWalk(shifted, spikes) EXCEPT
                   !.owed = IF spikes THEN @ + axon.len - 1 ELSE @]
      busy == walked.pipe \union walked.spike # {}
      begins == walked.idle /\ busy /\ walked.finish
      ends == ~walked.idle /\ ~busy /\ walked.finish
  IN Result(IF begins THEN [walked EXCEPT !.idle = FALSE, !.finish = FALSE]
            ELSE IF ends THEN NextSection([walked EXCEPT !.idle = TRUE])
            ELSE walked,
            OutIf(begins, <<"dynend", c>>, Signal(0))
            @@ OutIf(walks /\ walked.idx = NumNeurons, <<"dynend", c>>, Signal(1))
            @@ OutIf(spikes, <<"coreaxon", 0>>, axon),
            {ts} \intersect DOMAIN in)

-----------------------------------------------------------------------------
(* FastSynQueue *)

SynQueueInit ==
  [n |-> 0, coreTS |-> 0, synTS |-> [p \in Props |-> 0],
   queue |-> [p \in Props |-> TRUE], empty |-> TRUE, error |-> FALSE]

SynTaken(s, in, ts) ==
  IF ts \in DOMAIN in
  THEN [s EXCEPT !.coreTS = in[ts].value, !.synTS = [p \in Props |-> in[ts].value],
                 !.n = @ + 1]
  ELSE s

\* A synapse of the core's timestep passes; one of the next timestep stays in
\* the queue of the endpoint, with every synapse behind it.
FastSynQueue(c, s, in, size) ==
  LET ts == <<"coreTS", c>>
      t == SynTaken(s, in, ts)
      syn(p) == <<"coresyn", p>>
      tag(p) == <<"coresynts", p>>
      acc(p) == <<"acc", p>>
      room(p) == size[acc(p)] <= 2
      shown(p) == syn(p) \in DOMAIN in
      broken == \E p \in Props :
        room(p) /\ shown(p) /\ t.synTS[p] # t.coreTS /\ in[tag(p)].value # t.synTS[p]
      passes == {p \in Props : room(p) /\ shown(p) /\ in[tag(p)].value = t.coreTS}
      waits == {p \in Props : room(p) /\ shown(p)} \ passes
      drained == {p \in Props : room(p) /\ ~shown(p) /\ size[acc(p)] = 0}
      queue == [p \in Props |-> IF p \in passes THEN FALSE
                                ELSE t.queue[p] \/ p \in waits \union drained]
      wakes == t.empty /\ passes # {}
      allEmpty == (~t.empty \/ wakes) /\ \A p \in Props : queue[p]
  IN Result([t EXCEPT !.synTS = [p \in Props |->
                         IF room(p) /\ shown(p) THEN in[tag(p)].value ELSE @[p]],
                      !.queue = queue,
                      !.empty = (@ /\ ~wakes) \/ allEmpty,
                      !.error = @ \/ broken],
            [w \in {acc(p) : p \in passes} |-> [born |-> in[syn(w[2])].born]]
            @@ OutIf(allEmpty, <<"empty", c>>, TRUE)
            @@ OutIf(wakes, <<"empty", c>>, FALSE),
            ({ts} \union {syn(p) : p \in passes} \union {tag(p) : p \in passes})
              \intersect DOMAIN in)

-----------------------------------------------------------------------------
(* CoreAccUnit *)

AccInit == [pipe |-> {}, sent |-> TRUE, got |-> 0]

CoreAccUnit(c, s, in) ==
  LET arrived == {<<"synacc", c>>} \intersect DOMAIN in
      begins == arrived # {} /\ s.sent
      ends == arrived = {} /\ ~s.sent /\ s.pipe = {}
  IN Result([pipe |-> Shift(IF arrived # {} THEN s.pipe \union {0} ELSE s.pipe, AccDepth),
             sent |-> (s.sent \/ ends) /\ ~begins,
             got |-> s.got + Cardinality(arrived)],
            OutIf(begins, <<"accidle", c>>, Signal(0))
            @@ OutIf(ends, <<"accidle", c>>, Signal(1)),
            arrived)

-----------------------------------------------------------------------------
(* FastCoreTSMgr *)

TSMgrInit ==
  [dynEnd |-> TRUE, accIdle |-> TRUE, synEmpty |-> TRUE, cur |-> -1, next |-> -1, n |-> 0]

\* What the reports of the three other modules say.
Reported(c, s, in) ==
  LET end == <<"dynend", c>> idle == <<"accidle", c>> empty == <<"empty", c>>
      ts == <<"TSParity", 0>>
  IN [s EXCEPT !.dynEnd = IF end \in DOMAIN in THEN in[end].value = 1 ELSE @,
               !.accIdle = IF idle \in DOMAIN in THEN in[idle].value = 1 ELSE @,
               !.synEmpty = IF empty \in DOMAIN in THEN in[empty] ELSE @,
               !.next = IF ts \in DOMAIN in THEN (IF in[ts] THEN 1 ELSE 0) ELSE @]

\* Mutant of HandsOver: the accumulation and the synapse queue are not asked.
HandsOverEarly(t) == t.cur # t.next /\ t.dynEnd

HandsOver(t) == t.cur # t.next /\ t.dynEnd /\ t.accIdle /\ t.synEmpty

FastCoreTSMgr(c, s, in) ==
  LET t == Reported(c, s, in)
      hands == HandsOver(t)
  IN Result(IF hands THEN [t EXCEPT !.cur = t.next, !.dynEnd = FALSE, !.n = @ + 1] ELSE t,
            OutIf(hands, <<"dynfin", 0>>, FALSE)
            @@ OutIf(t.dynEnd # s.dynEnd, <<"dynfin", 0>>, t.dynEnd)
            @@ OutIf(hands, <<"coreTS", c>>, Signal(t.next)),
            {<<"dynend", c>>, <<"accidle", c>>} \intersect DOMAIN in)
=============================================================================
