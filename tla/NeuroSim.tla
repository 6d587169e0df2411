------------------------------ MODULE NeuroSim ------------------------------
(***************************************************************************)
(* A board of NeuroSim in fast mode: a NeuroChip with its cores, the       *)
(* propagators, the input feeder and the timestep manager, wired as the    *)
(* constructors of NeuroSim, NeuroChip, FastCore, Propagator and           *)
(* Controller wire them, and run by the loop of module Simulation.         *)
(*                                                                         *)
(* The board is alone (num_boards = 1) and has one chip: what several      *)
(* boards say to each other is in module BoardBarrier.                     *)
(***************************************************************************)
EXTENDS Propagator

CONSTANTS
  NumInputs,        \* num_inputs_ of the InputFeeder
  InputLen,         \* entries of an input axon
  TsBuf,            \* the initial value of ts_buf_
  MaxTimestep,      \* max_timestep of the testbench
  DynSections,      \* spike scripts a core may have
  DelaySections     \* scripts a delay manager may have

Cores == 1..NumCores

ASSUME BoardAssumption ==
  /\ NumInputs \in Nat /\ TsBuf \in Nat /\ MaxTimestep \in Nat
  /\ NumBoards = 1 /\ NumCores \in Nat \ {0}
  /\ Props = 1..Cardinality(Props) /\ PropOf \in [Cores -> Props]

-----------------------------------------------------------------------------
(* AxonTransmitter and SynDataDistrib of the chip *)

TransmitterInit == [idle |-> FALSE, delay |-> 0]

\* The transmitter reports idle some cycles after its last axon.
AxonTransmitter(s, in) ==
  LET axon == <<"coreaxon", 0>>
      busy == axon \in DOMAIN in
      rests == ~busy /\ ~s.idle /\ s.delay = 0
  IN Result([idle |-> IF busy THEN FALSE ELSE s.idle \/ rests,
             delay |-> IF busy THEN 3 ELSE IF s.idle \/ s.delay = 0 THEN 0 ELSE s.delay - 1],
            (IF busy
             THEN <<"axon", in[axon].prop>> :>
                    [len |-> in[axon].len, delay |-> in[axon].delay, born |-> in[axon].born,
                     off |-> TRUE]
             ELSE Nothing)
            @@ OutIf(busy /\ s.idle, <<"dynfin", 0>>, FALSE)
            @@ OutIf(rests, <<"dynfin", 0>>, TRUE),
            {axon} \intersect DOMAIN in)

DistribInit == [error |-> FALSE]

\* A synapse, its parity and its core come over three wires and belong together.
SynDataDistrib(s, in) ==
  LET syn(p) == <<"syn", p>> ts(p) == <<"synts", p>> cidx(p) == <<"cidx", p>>
      both == {p \in Props : syn(p) \in DOMAIN in /\ cidx(p) \in DOMAIN in}
      one == {p \in Props : syn(p) \in DOMAIN in \/ cidx(p) \in DOMAIN in} \ both
      core(p) == in[cidx(p)].core
  IN Result([error |-> s.error \/ one # {}],
            [w \in {<<"coresyn", p>> : p \in both} |->
               [born |-> in[syn(w[2])].born, to |-> core(w[2])]]
            @@ [w \in {<<"coresynts", p>> : p \in both} |->
                  [value |-> in[ts(w[2])].value, to |-> core(w[2])]],
            DOMAIN in)

-----------------------------------------------------------------------------
(* InputFeeder *)

FeederInit == [n |-> 0, idle |-> TRUE, parity |-> FALSE, counter |-> NumInputs,
               owed |-> 0]

InputFeeder(s, in, prop) ==
  LET ts == <<"TSParity", 0>>
      starts == ts \in DOMAIN in /\ in[ts] # s.parity
      t == IF starts
           THEN [s EXCEPT !.n = @ + 1, !.idle = FALSE, !.counter = 0, !.parity = in[ts]]
           ELSE s
      feeds == t.counter # NumInputs
      rests == ~feeds /\ ~t.idle
  IN Result([t EXCEPT !.idle = @ \/ rests, !.counter = IF feeds THEN @ + 1 ELSE @,
                       !.owed = IF feeds THEN @ + InputLen - 1 ELSE @],
            OutIf(feeds, <<"axon", prop>>,
                  [len |-> InputLen, delay |-> 0, born |-> t.n, off |-> FALSE])
            @@ OutIf(rests, <<"dynfin", 0>>, TRUE) @@ OutIf(starts, <<"dynfin", 0>>, FALSE),
            {})

-----------------------------------------------------------------------------
(* TSManager *)

TSManagerInit ==
  [n |-> 0, dynFin |-> TRUE, propIdle |-> TRUE, finish |-> TRUE, start |-> TRUE,
   end |-> FALSE, parity |-> FALSE, buf |-> TsBuf, ends |-> 0]

\* Mutant of Heard: it is enough that the cores or the propagators rest.
HeardEither(s, in) ==
  LET fin == <<"dynfin", 0>> idle == <<"propidle", 0>>
      t == [s EXCEPT !.dynFin = IF fin \in DOMAIN in THEN in[fin] ELSE @,
                     !.propIdle = IF idle \in DOMAIN in THEN in[idle] ELSE @]
  IN IF {fin, idle} \intersect DOMAIN in = {} THEN s
     ELSE [t EXCEPT !.finish = t.dynFin \/ t.propIdle]

\* is_finish is computed anew from every report.
Heard(s, in) ==
  LET fin == <<"dynfin", 0>> idle == <<"propidle", 0>>
      t == [s EXCEPT !.dynFin = IF fin \in DOMAIN in THEN in[fin] ELSE @,
                     !.propIdle = IF idle \in DOMAIN in THEN in[idle] ELSE @]
  IN IF {fin, idle} \intersect DOMAIN in = {} THEN s
     ELSE [t EXCEPT !.finish = t.dynFin /\ t.propIdle]

\* The board waits TsBuf cycles before it believes that it has finished.
Ended(t) ==
  IF t.finish /\ t.start /\ ~t.end
  THEN IF t.buf > 0 THEN [t EXCEPT !.buf = @ - 1]
       ELSE [t EXCEPT !.ends = @ + 1, !.buf = TsBuf, !.end = TRUE]
  ELSE IF ~t.finish /\ ~t.start /\ ~t.dynFin THEN [t EXCEPT !.start = TRUE]
  ELSE t

TSManager(s, in) ==
  LET t == Ended(Heard(s, in))
      flips == t.ends = NumBoards /\ t.start
  IN Result(IF flips
            THEN [t EXCEPT !.n = @ + 1, !.parity = ~@, !.ends = 0, !.finish = FALSE,
                           !.start = FALSE, !.end = FALSE]
            ELSE t,
            OutIf(flips, <<"TSParity", 0>>, ~t.parity),
            {})

-----------------------------------------------------------------------------
(* The wiring *)

Unit(name, i) == <<name, i>>
UnitsNamed(names, indices) == {<<name, i>> : name \in names, i \in indices}

NSUnits ==
  UnitsNamed({"dyn", "synq", "acc", "tsmgr"}, Cores)
  \union UnitsNamed({"amr", "as", "ps", "ac", "fdm"}, Props)
  \union UnitsNamed({"tx", "sdd", "feeder", "tsm"}, {0})

Ddr == 1
Dram == 2
Main == 3

NSClockOf ==
  [u \in NSUnits |-> IF u[1] \in {"ps", "ac"} THEN Ddr
                     ELSE IF u[1] \in {"synq", "sdd", "as"} THEN Dram ELSE Main]

NSPDepth ==
  [u \in NSUnits |-> IF u[1] = "ps" THEN 0 ELSE IF u[1] = "dyn" THEN Depth ELSE 1]

NSWires ==
  UnitsNamed({"coreTS", "dynend", "accidle", "synacc"}, Cores)
  \union UnitsNamed({"coresyn", "coresynts", "axon", "stream", "delay", "dramaddr",
                     "dramdata", "syn", "synts", "cidx"}, Props)
  \union {<<"coreaxon", 0>>}

Same(u, w) == << <<u, w>> >>

NSLhs ==
  [w \in NSWires |->
     LET i == w[2]
     IN CASE w[1] = "coreTS" -> Same(Unit("tsmgr", i), w)
          [] w[1] = "dynend" -> Same(Unit("dyn", i), w)
          [] w[1] = "accidle" -> Same(Unit("acc", i), w)
          [] w[1] = "synacc" ->
               [p \in 1..Cardinality(Props) |-> <<Unit("synq", i), <<"acc", p>> >>]
          [] w[1] = "coreaxon" -> [c \in Cores |-> <<Unit("dyn", c), w>>]
          [] w[1] \in {"coresyn", "coresynts"} -> Same(Unit("sdd", 0), w)
          [] w[1] = "axon" -> << <<Unit("tx", 0), w>>, <<Unit("fdm", i), w>>,
                                 <<Unit("feeder", 0), w>> >>
          [] w[1] = "stream" -> Same(Unit("amr", i), w)
          [] w[1] = "delay" -> << <<Unit("ac", i), w>>, <<Unit("amr", i), w>> >>
          [] w[1] = "dramaddr" -> Same(Unit("as", i), w)
          [] w[1] = "dramdata" -> Same(Unit("ps", i), w)
          [] OTHER -> Same(Unit("ac", i), w)]

NSRhs ==
  [w \in NSWires |->
     LET i == w[2]
     IN CASE w[1] = "coreTS" -> {Unit("dyn", i), Unit("synq", i)}
          [] w[1] \in {"dynend", "accidle"} -> {Unit("tsmgr", i)}
          [] w[1] = "synacc" -> {Unit("acc", i)}
          [] w[1] = "coreaxon" -> {Unit("tx", 0)}
          [] w[1] \in {"coresyn", "coresynts"} -> {Unit("synq", c) : c \in Cores}
          [] w[1] = "axon" -> {Unit("amr", i)}
          [] w[1] = "stream" -> {Unit("as", i)}
          [] w[1] = "delay" -> {Unit("fdm", i)}
          [] w[1] = "dramaddr" -> {Unit("ps", i)}
          [] w[1] = "dramdata" -> {Unit("ac", i)}
          [] OTHER -> {Unit("sdd", 0)}]

\* Queues of the endpoints; 64 stands for the sizes of queues that only delay.
CONSTANTS SynQueueSize, StreamQueueSize, EntryQueueSize

NSLhsCap ==
  [w \in NSWires |->
     CASE w[1] = "synacc" -> [p \in 1..Cardinality(Props) |-> 4]
       [] w[1] = "coreaxon" -> [c \in Cores |-> 16]
       [] w[1] = "axon" -> <<2, 4, 2>>
       [] w[1] = "delay" -> <<2, 0>>
       [] w[1] = "dramdata" -> <<OutqueSize>>
       [] w[1] \in {"syn", "synts", "cidx"} -> <<EntryQueueSize>>
       [] OTHER -> <<0>>]

NSRhsCap ==
  [w \in NSWires |->
     CASE w[1] \in {"coresyn", "coresynts"} -> SynQueueSize
       [] w[1] = "stream" -> StreamQueueSize
       [] w[1] = "delay" -> 256
       [] w[1] \in {"syn", "synts", "cidx"} -> 2
       [] OTHER -> 1]

NSLevels ==
  UnitsNamed({"empty"}, Cores) \union UnitsNamed({"dynfin", "propidle", "TSParity"}, {0})

\* The leaves of the AND gates dynfin_and, prop_idle, idle_and and the
\* one-input gates in front of the parity and of the empty level.
NSLeaves ==
  [l \in NSLevels |->
     CASE l[1] = "empty" -> {Unit("synq", l[2])}
       [] l[1] = "dynfin" -> UnitsNamed({"tsmgr"}, Cores) \union UnitsNamed({"tx", "feeder"}, {0})
       [] l[1] = "propidle" -> UnitsNamed({"amr", "as", "ps", "ac", "fdm"}, Props)
       [] OTHER -> {Unit("tsm", 0)}]

NSReaders ==
  [l \in NSLevels |->
     CASE l[1] = "empty" -> {Unit("tsmgr", l[2])}
       [] l[1] = "TSParity" -> UnitsNamed({"tsmgr"}, Cores) \union UnitsNamed({"ac", "fdm"}, Props)
                               \union {Unit("feeder", 0)}
       [] OTHER -> {Unit("tsm", 0)}]

\* A synapse goes to the core in DEST_RHS_ID, everything else to all readers.
NSDestOf(w, m) == IF "to" \in DOMAIN m THEN {Unit("synq", m.to)} ELSE NSRhs[w]

-----------------------------------------------------------------------------
(* The modules of the board as the parameters of Simulation *)

NSOperation(u, s, in, size, ch) ==
  CASE u[1] = "dyn" -> CoreDynUnit(u[2], s, in)
    [] u[1] = "synq" -> FastSynQueue(u[2], s, in, size)
    [] u[1] = "acc" -> CoreAccUnit(u[2], s, in)
    [] u[1] = "tsmgr" -> FastCoreTSMgr(u[2], s, in)
    [] u[1] = "amr" -> AxonMetaRecv(u[2], s, in)
    [] u[1] = "as" -> AxonStreamer(u[2], s, in)
    [] u[1] = "ps" -> PseudoStorage(u[2], s, in, size, ch[u[2]])
    [] u[1] = "ac" -> AxonClassifier(u[2], s, in, size)
    [] u[1] = "fdm" -> FastDelayMgr(u[2], s, in, size)
    [] u[1] = "tx" -> AxonTransmitter(s, in)
    [] u[1] = "sdd" -> SynDataDistrib(s, in)
    [] u[1] = "feeder" -> InputFeeder(s, in, ch)
    [] u[1] = "tsm" -> TSManager(s, in)

\* The answer of every DRAM with the cores its synapses are for, and the
\* propagator the feeder draws.
StorageOutside(s) ==
  UNION {{[done |-> done, cores |-> cores] :
            cores \in IF done = {} THEN {[i \in 0..(IoBufSize - 1) |-> 1]} ELSE Targets}
           : done \in Answers(s)}

NSOutside(d, st) ==
  CASE d = Ddr -> {ch \in [Props -> UNION {StorageOutside(st[Unit("ps", p)]) : p \in Props}] :
                          \A p \in Props : ch[p] \in StorageOutside(st[Unit("ps", p)])}
    [] d = Main /\ NumInputs > 0 -> Props
    [] OTHER -> {1}

NSInitStates ==
  {[u \in NSUnits |->
      CASE u[1] = "dyn" -> DynInit(dyn[u[2]])
        [] u[1] = "synq" -> SynQueueInit
        [] u[1] = "acc" -> AccInit
        [] u[1] = "tsmgr" -> TSMgrInit
        [] u[1] = "amr" -> RecvInit
        [] u[1] = "as" -> StreamerInit
        [] u[1] = "ps" -> ps[u[2]]
        [] u[1] = "ac" -> ac[u[2]]
        [] u[1] = "fdm" -> fdm[u[2]]
        [] u[1] = "tx" -> TransmitterInit
        [] u[1] = "sdd" -> DistribInit
        [] u[1] = "feeder" -> FeederInit
        [] u[1] = "tsm" -> TSManagerInit]
     : dyn \in [Cores -> DynSections], ps \in [Props -> StorageInits],
       ac \in [Props -> ClassifierInits],
       fdm \in [Props -> UNION {DelayInits(script) : script \in DelaySections}]}

\* NeuroSimTestbench::IsFinished; the report of the timestep to the testbench
\* goes through the network and is taken to arrive at once.
NSIsFinished(st) == st[Unit("tsm", 0)].n > MaxTimestep
=============================================================================
