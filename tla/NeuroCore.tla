------------------------------ MODULE NeuroCore ------------------------------
(***************************************************************************)
(* The core of the detailed mode (fast = 0): NBController reads state and  *)
(* delta of one neuron after the other out of two memories and hands them  *)
(* to NeuronBlock, AxonMetaQueue looks up the axon of every spike,         *)
(* SynDataQueue lets the synapses of the core's own timestep pass,         *)
(* Accumulator adds them to the delta memory, and CoreTSMgr takes the core *)
(* to the next timestep.  As in FastCore every operator is the Operation   *)
(* of a module, and n, born and late are history.                          *)
(*                                                                         *)
(* Three units are what the core sees of the board: source is             *)
(* SynDataDistrib with the propagators behind it, tx the AxonTransmitter   *)
(* and tsm the TSManager.                                                  *)
(***************************************************************************)
EXTENDS FastCore

CONSTANTS
  BlockDepth,      \* pipeline_depth of the NeuronBlock, 2
  Bursts,          \* numbers of synapses a propagator has for the core in a timestep
  TsBuffer,        \* the initial value of ts_buf_ of the TSManager, 3
  SynDelay,        \* cycles from a flip of the parity to the first synapse
  MaxCoreTS,       \* bound: timesteps
  CoreSections     \* spike scripts of the core

ASSUME NeuroCoreAssumption ==
  /\ BlockDepth \in Nat \ {0} /\ Bursts \subseteq Nat /\ SynDelay \in Nat
  /\ TsBuffer \in Nat
  /\ MaxCoreTS \in Nat

Port0(name) == <<name, 0>>
ShownOf(names, in) == names \intersect DOMAIN in

-----------------------------------------------------------------------------
(* NBController *)

ControllerInit == [read |-> 0, nb |-> 0, finish |-> TRUE, n |-> 0, error |-> FALSE]

\* A new parity starts the walk over the neurons anew.
WalkRestarted(s, in) ==
  IF Port0("coreTS") \in DOMAIN in
  THEN [s EXCEPT !.read = 0, !.nb = 0, !.finish = FALSE, !.n = @ + 1]
  ELSE s

\* Mutant of ReadsNext: reading goes on after the last neuron.
ReadsNextOver(t) == ~t.finish

ReadsNext(t) == t.read # NumNeurons /\ ~t.finish

\* A neuron goes to the block when both memories have answered.
NBController(s, in) ==
  LET answers == ShownOf({Port0("state"), Port0("deltanbc")}, in)
      both == Cardinality(answers) = 2
      t == WalkRestarted(s, in)
      last == both /\ t.nb + 1 = NumNeurons
      u == [t EXCEPT !.nb = IF both THEN @ + 1 ELSE @, !.finish = @ \/ last,
                     !.error = @ \/ Cardinality(answers) = 1]
      reads == ReadsNext(u) /\ Cardinality(answers) # 1
      address == [idx |-> u.read]
  IN Result([u EXCEPT !.read = IF reads THEN @ + 1 ELSE @],
            OutIf(last, Port0("nbcend"), Signal(TRUE))
            @@ OutIf(Port0("coreTS") \in DOMAIN in /\ s.finish, Port0("nbcend"), Signal(FALSE))
            @@ OutIf(both, Port0("neuron"), [idx |-> t.nb, born |-> t.n])
            @@ OutIf(reads, Port0("ssram"), address) @@ OutIf(reads, Port0("dsram"), address),
            DOMAIN in)

-----------------------------------------------------------------------------
(* NeuronBlock *)

BlockInit(sections) ==
  [idle |-> TRUE, time |-> 0, sections |-> sections, trace |-> <<>>, fresh |-> TRUE]

\* The block is idle when nothing has come for the depth of its pipeline.
NeuronBlock(s, in) ==
  LET busy == Port0("neuron") \in DOMAIN in
      job == in[Port0("neuron")]
      t == Instructed(s)
      spikes == busy /\ t.trace # <<>> /\ Head(t.trace) = job.idx
      ends == ~busy /\ ~t.idle /\ t.time = BlockDepth
      u == [t EXCEPT !.idle = ~busy /\ (@ \/ ends),
                     !.time = IF busy THEN 0 ELSE IF t.idle THEN @ ELSE @ + 1,
                     !.trace = IF spikes THEN Tail(@) ELSE @]
  IN Result(IF ends THEN NextSection(u) ELSE u,
            OutIf(busy /\ t.idle, Port0("nbidle"), Signal(FALSE))
            @@ OutIf(ends, Port0("nbidle"), Signal(TRUE))
            @@ (IF busy
                THEN Port0("spike") :> [idx |-> job.idx, spike |-> spikes, born |-> job.born]
                     @@ Port0("waddr") :> [idx |-> job.idx] @@ Port0("wdata") :> [idx |-> job.idx]
                ELSE Nothing),
            DOMAIN in)

-----------------------------------------------------------------------------
(* AxonMetaQueue and AxonMetaTable *)

MetaQueueInit == [empty |-> TRUE, ongoing |-> 0]

\* Mutant of Resolved: the lookups under way are not asked.
ResolvedQueued(t, queued) == ~t.empty /\ queued = 0

Resolved(t, queued) == ~t.empty /\ queued = 0 /\ t.ongoing = 0

\* A spike is looked up in the table; the queue is empty when every lookup has
\* been answered.  The delay the table holds is dropped.
AxonMetaQueue(s, in, size) ==
  LET spikes == Port0("spike") \in DOMAIN in /\ in[Port0("spike")].spike
      answered == Port0("meta") \in DOMAIN in
      t == [empty |-> s.empty /\ ~spikes,
            ongoing |-> s.ongoing + IF spikes THEN 1 ELSE 0]
      rests == ~answered /\ Resolved(t, size[Port0("metaaddr")])
  IN Result([empty |-> t.empty \/ rests, ongoing |-> IF answered THEN t.ongoing - 1 ELSE t.ongoing],
            OutIf(spikes, Port0("metaaddr"), in[Port0("spike")])
            @@ OutIf(spikes /\ s.empty, Port0("amqempty"), Signal(FALSE))
            @@ OutIf(rests, Port0("amqempty"), Signal(TRUE))
            @@ OutIf(answered, Port0("axon"), in[Port0("meta")]),
            DOMAIN in)

AxonMetaTable(in) ==
  LET addr == Port0("metaaddr")
  IN Result(0, IF addr \in DOMAIN in
               THEN Port0("meta") :> [len |-> AxonLen[1][in[addr].idx], born |-> in[addr].born]
               ELSE Nothing, DOMAIN in)

-----------------------------------------------------------------------------
(* StateSRAM and DeltaStorage *)

SRAMInit == [n |-> 0, error |-> FALSE, late |-> FALSE]

\* The address and the value of a write come over two wires.
Torn(addr, data, in) == Cardinality(ShownOf({addr, data}, in)) = 1

StateSRAM(s, in) ==
  Result([s EXCEPT !.error = @ \/ Torn(Port0("waddr"), Port0("wdata"), in)],
         OutIf(Port0("ssram") \in DOMAIN in, Port0("state"), [value |-> 0]), DOMAIN in)

\* One read port for the dynamics, one for the accumulation.
DeltaStorage(s, in) ==
  LET torn == Torn(Port0("dwaddr"), Port0("dwdata"), in)
      writes == Port0("dwaddr") \in DOMAIN in
  IN Result([n |-> IF Port0("coreTS") \in DOMAIN in THEN s.n + 1 ELSE s.n,
             error |-> s.error \/ torn,
             late |-> s.late \/ (writes /\ in[Port0("dwaddr")].born # s.n)],
            OutIf(Port0("dsram") \in DOMAIN in, Port0("deltanbc"), [value |-> 0])
            @@ OutIf(Port0("accraddr") \in DOMAIN in, Port0("deltaacc"), [value |-> 0]),
            DOMAIN in)

-----------------------------------------------------------------------------
(* Accumulator *)

AccumulatorInit == [idle |-> TRUE, queue |-> <<>>]

\* It reads the delta of a synapse's neuron and writes the sum when it comes.
Accumulator(s, in) ==
  LET arrived == Port0("synapse") \in DOMAIN in
      read == Port0("deltaacc") \in DOMAIN in
      queue == IF arrived THEN Append(s.queue, in[Port0("synapse")]) ELSE s.queue
      rests == ~read /\ ~(s.idle /\ ~arrived) /\ queue = <<>>
  IN Result([idle |-> (s.idle /\ ~arrived) \/ rests, queue |-> IF read THEN Tail(queue) ELSE queue],
            OutIf(rests, Port0("accidle"), Signal(TRUE))
            @@ OutIf(arrived /\ s.idle, Port0("accidle"), Signal(FALSE))
            @@ (IF arrived THEN Port0("accraddr") :> in[Port0("synapse")] ELSE Nothing)
            @@ (IF read THEN Port0("dwaddr") :> Head(queue) @@ Port0("dwdata") :> [value |-> 0]
                ELSE Nothing),
            DOMAIN in)

-----------------------------------------------------------------------------
(* SynDataQueue *)

\* Neither coreTS nor synTS is initialised.
SynDataQueueInit(core, syn) ==
  [core |-> core, syn |-> syn, empty |-> TRUE, n |-> 0, error |-> FALSE]

\* Mutant of IsOwn: the parity of the synapse is not compared.
IsOwnAlways(s, m) == TRUE

IsOwn(s, m) == m.value = s.core

\* Mutant of AfterParity: the parity of the last synapse is kept.
AfterParityKept(s, in) ==
  IF Port0("coreTS") \notin DOMAIN in THEN s
  ELSE [s EXCEPT !.core = in[Port0("coreTS")].value, !.n = @ + 1]

AfterParity(s, in) ==
  IF Port0("coreTS") \notin DOMAIN in THEN s
  ELSE [s EXCEPT !.core = in[Port0("coreTS")].value, !.syn = in[Port0("coreTS")].value,
                 !.n = @ + 1]

\* A synapse of the core's timestep goes to the accumulator; one of the next
\* stays in the queue.  A new parity is taken after the synapse.
SynDataQueue(p, s, in, size) ==
  LET syn == <<"syn", p>> tag == <<"synts", p>> acc == <<"acc", p>>
      shown == IF size[acc] > 2 THEN {} ELSE ShownOf({syn, tag}, in)
      both == Cardinality(shown) = 2
      broken == both /\ s.syn # s.core /\ IsOwn(s, in[tag])
      passes == both /\ ~broken /\ IsOwn(s, in[tag])
      rests == ~passes /\ ~s.empty /\ size[acc] = 0
      t == [s EXCEPT !.syn = IF both /\ ~broken THEN in[tag].value ELSE @,
                     !.empty = (@ /\ ~passes) \/ rests,
                     !.error = @ \/ broken \/ Cardinality(shown) = 1]
  IN Result(AfterParity(t, in),
            OutIf(rests, Port0("sdqempty"), TRUE)
            @@ OutIf(passes /\ s.empty, Port0("sdqempty"), FALSE)
            @@ (IF passes THEN acc :> in[syn] ELSE Nothing),
            (IF passes THEN shown ELSE {}) \union ShownOf({Port0("coreTS")}, in))

-----------------------------------------------------------------------------
(* CoreTSMgr *)

CoreTSMgrInit ==
  [nbc |-> TRUE, nb |-> TRUE, amq |-> TRUE, acc |-> TRUE, sdq |-> TRUE,
   cur |-> -1, next |-> -1, fin |-> TRUE, n |-> 0]

\* What the reports of the five units and the level of the board say.
CoreReported(s, in) ==
  LET said(name, old) == IF Port0(name) \in DOMAIN in THEN in[Port0(name)].value ELSE old
      parity(old) == IF Port0("curTS") \notin DOMAIN in THEN old
                     ELSE IF in[Port0("curTS")] THEN 1 ELSE 0
  IN [s EXCEPT !.nbc = said("nbcend", @), !.nb = said("nbidle", @),
               !.amq = said("amqempty", @), !.acc = said("accidle", @),
               !.sdq = IF Port0("sdqempty") \in DOMAIN in THEN in[Port0("sdqempty")] ELSE @, !.next = parity(@)]

DynFinished(t) == t.nbc /\ t.nb /\ t.amq

\* Mutant of TakesTimestep: the accumulator is not asked.
TakesTimestepEarly(t) == t.cur # t.next /\ DynFinished(t) /\ t.sdq

TakesTimestep(t) == t.cur # t.next /\ DynFinished(t) /\ t.acc /\ t.sdq

CoreTSMgr(s, in) ==
  LET t == [CoreReported(s, in) EXCEPT !.fin = DynFinished(CoreReported(s, in))]
      takes == TakesTimestep(t)
  IN Result(IF takes THEN [t EXCEPT !.cur = t.next, !.nbc = FALSE, !.n = @ + 1] ELSE t,
            OutIf(t.fin # s.fin, Port0("dynfin"), t.fin)
            @@ OutIf(takes, Port0("coreTS"), Signal(t.next)),
            DOMAIN in)

-----------------------------------------------------------------------------
(* The board as the core sees it *)

ManagerInit == [n |-> 0, start |-> TRUE, fin |-> TRUE, idle |-> TRUE, buf |-> TsBuffer]

ManagerHeard(s, in) ==
  LET level(name, old) == IF Port0(name) \in DOMAIN in THEN in[Port0(name)] ELSE old
      fin == level("dynfin", s.fin)
  IN [s EXCEPT !.fin = fin, !.idle = level("propidle", @), !.start = @ \/ ~fin]

\* The TSManager of a lone board: the dynamics has begun and ended, the
\* propagators are idle, and it has been so for ts_buf_ cycles.
Manager(s, in) ==
  LET t == ManagerHeard(s, in)
      finished == t.start /\ t.fin /\ t.idle
  IN IF finished /\ t.buf = 0
     THEN Result([t EXCEPT !.n = @ + 1, !.start = FALSE, !.buf = TsBuffer],
                 Port0("curTS") :> (Parity(t.n + 1) = 1), DOMAIN in)
     ELSE Result([t EXCEPT !.buf = IF finished THEN @ - 1 ELSE @], Nothing, DOMAIN in)

\* A propagator that has not begun to send, and one that has k synapses left.
Quiet == -1

SourceInit == [n |-> 0, wait |-> 0, left |-> [p \in Props |-> 0], idle |-> TRUE]

SourceStarted(s, in) ==
  IF Port0("curTS") \in DOMAIN in /\ in[Port0("curTS")] # (Parity(s.n) = 1)
  THEN [n |-> s.n + 1, wait |-> SynDelay, left |-> [p \in Props |-> Quiet], idle |-> FALSE]
  ELSE [s EXCEPT !.wait = IF @ = 0 THEN 0 ELSE @ - 1]

\* The propagators with SynDataDistrib: each sends its synapses of a timestep
\* one after the other, from a cycle on that is open, and rests until the next.
Source(s, in, ch) ==
  LET t == SourceStarted(s, in)
      begins == {p \in Props : t.left[p] = Quiet /\ t.wait = 0 /\ ch[p] # Quiet}
      left == [p \in Props |-> IF p \in begins THEN ch[p] ELSE t.left[p]]
      sends == {p \in Props : left[p] > 0}
      rests == ~t.idle /\ \A p \in Props : left[p] = 0
  IN Result([t EXCEPT !.left = [p \in Props |-> IF p \in sends THEN left[p] - 1 ELSE left[p]],
                      !.idle = @ \/ rests],
            OutIf(rests, Port0("propidle"), TRUE)
            @@ OutIf(t.n # s.n, Port0("propidle"), FALSE)
            @@ [w \in {<<"syn", p>> : p \in sends} |-> [born |-> t.n]]
            @@ [w \in {<<"synts", p>> : p \in sends} |-> Signal(Parity(t.n))],
            DOMAIN in)

NCOutside(d, st) ==
  LET s == st[Port0("source")]
      open(p) == s.left[p] = Quiet /\ s.wait <= 1
  IN IF d = 2 THEN {1}
     ELSE {ch \in [Props -> Bursts \union {Quiet}] : \A p \in Props : ~open(p) => ch[p] = Quiet}

\* AxonTransmitter takes every axon.
Sink(in) == Result(0, Nothing, DOMAIN in)

-----------------------------------------------------------------------------
(* The wiring *)

\* A wire with one writer: its name, its writer, its readers, their capacity.
Line(name, from, to, cap) == [name |-> name, from |-> from, to |-> to, cap |-> cap]

Lines ==
  {Line("neuron", "nbc", {"nb"}, 1), Line("ssram", "nbc", {"state"}, 1),
   Line("dsram", "nbc", {"delta"}, 1), Line("nbcend", "nbc", {"tsmgr"}, 1),
   Line("waddr", "nb", {"state"}, 10), Line("wdata", "nb", {"state"}, 10),
   Line("nbidle", "nb", {"tsmgr"}, 1), Line("spike", "nb", {"amq"}, 1),
   Line("metaaddr", "amq", {"amt"}, 1), Line("amqempty", "amq", {"tsmgr"}, 1),
   Line("axon", "amq", {"tx"}, 1), Line("meta", "amt", {"amq"}, 1),
   Line("state", "state", {"nbc"}, 1), Line("deltanbc", "delta", {"nbc"}, 3),
   Line("deltaacc", "delta", {"acc"}, 3), Line("accidle", "acc", {"tsmgr"}, 1),
   Line("accraddr", "acc", {"delta"}, 1), Line("dwaddr", "acc", {"delta"}, 1),
   Line("dwdata", "acc", {"delta"}, 1), Line("coreTS", "tsmgr", {"nbc", "delta", "acc"}, 1)}

Queues == {<<"sdq", p>> : p \in Props}
SynWires == {<<name, p>> : name \in {"syn", "synts"}, p \in Props}

NCUnits ==
  {Port0(name) : name \in {"nbc", "nb", "amq", "amt", "state", "delta", "acc", "tsmgr", "tsm", "source", "tx"}}
  \union Queues

NCClockOf == [u \in NCUnits |-> IF u \in Queues \union {Port0("source")} THEN 1 ELSE 2]
NCPDepth == [u \in NCUnits |-> IF u = Port0("nb") THEN BlockDepth ELSE 1]

NCWires == {Port0(line.name) : line \in Lines} \union {Port0("synapse")} \union SynWires

LineOf(w) == CHOOSE line \in Lines : Port0(line.name) = w

NCLhs ==
  [w \in NCWires |->
     CASE w = Port0("synapse") -> [p \in 1..Cardinality(Props) |-> << <<"sdq", p>>, <<"acc", p>> >>]
       [] w \in SynWires -> << <<Port0("source"), w>> >>
       [] OTHER -> << <<Port0(LineOf(w).from), w>> >>]

NCRhs ==
  [w \in NCWires |->
     CASE w = Port0("synapse") -> {Port0("acc")}
       [] w \in SynWires -> {<<"sdq", w[2]>>}
       [] OTHER -> {Port0(name) : name \in LineOf(w).to}
                   \union (IF w = Port0("coreTS") THEN Queues ELSE {})]

NCLhsCap ==
  [w \in NCWires |->
     CASE w = Port0("synapse") -> [p \in 1..Cardinality(Props) |-> 4]
       [] w = Port0("axon") -> <<16>>
       [] OTHER -> <<0>>]

NCRhsCap ==
  [w \in NCWires |->
     CASE w = Port0("synapse") -> 1
       [] w \in SynWires -> 64
       [] OTHER -> LineOf(w).cap]

NCLevels == {Port0("sdqempty"), Port0("curTS"), Port0("dynfin"), Port0("propidle")}
NCLeaves ==
  [l \in NCLevels |-> CASE l = Port0("sdqempty") -> Queues
                        [] l = Port0("curTS") -> {Port0("tsm")}
                        [] l = Port0("dynfin") -> {Port0("tsmgr")}
                        [] l = Port0("propidle") -> {Port0("source")}]
NCReaders ==
  [l \in NCLevels |-> CASE l = Port0("sdqempty") -> {Port0("tsmgr")}
                        [] l = Port0("curTS") -> {Port0("tsmgr"), Port0("source")}
                        [] OTHER -> {Port0("tsm")}]

NCDestOf(w, m) == NCRhs[w]

-----------------------------------------------------------------------------
(* The modules of the core as the parameters of Simulation *)

NCOperation(u, s, in, size, ch) ==
  CASE u[1] = "nbc" -> NBController(s, in)
    [] u[1] = "nb" -> NeuronBlock(s, in)
    [] u[1] = "amq" -> AxonMetaQueue(s, in, size)
    [] u[1] = "amt" -> AxonMetaTable(in)
    [] u[1] = "state" -> StateSRAM(s, in)
    [] u[1] = "delta" -> DeltaStorage(s, in)
    [] u[1] = "acc" -> Accumulator(s, in)
    [] u[1] = "sdq" -> SynDataQueue(u[2], s, in, size)
    [] u[1] = "tsmgr" -> CoreTSMgr(s, in)
    [] u[1] = "tsm" -> Manager(s, in)
    [] u[1] = "source" -> Source(s, in, ch)
    [] u[1] = "tx" -> Sink(in)

NCInitStates ==
  {[u \in NCUnits |->
      CASE u[1] = "nbc" -> ControllerInit
        [] u[1] = "nb" -> BlockInit(sections)
        [] u[1] = "amq" -> MetaQueueInit
        [] u[1] \in {"amt", "tx"} -> 0
        [] u[1] \in {"state", "delta"} -> SRAMInit
        [] u[1] = "acc" -> AccumulatorInit
        [] u[1] = "sdq" -> queues[u[2]]
        [] u[1] = "tsmgr" -> CoreTSMgrInit
        [] u[1] = "tsm" -> ManagerInit
        [] u[1] = "source" -> SourceInit]
     : sections \in CoreSections,
       queues \in [Props -> {SynDataQueueInit(core, syn) : core \in {0, 1}, syn \in {0, 1}}]}

NCIsFinished(st) == st[Port0("tsm")].n > MaxCoreTS
=============================================================================
