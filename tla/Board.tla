-------------------------------- MODULE Board --------------------------------
(***************************************************************************)
(* A running board: the modules and the wiring of NeuroSim, clocked by     *)
(* Simulation, and what a timestep of the board promises.                  *)
(***************************************************************************)
EXTENDS Simulation, NeuroSim, FiniteSetsExt, SequencesExt

Tsm == state[Unit("tsm", 0)]
TsMgr(c) == state[Unit("tsmgr", c)]
Dyn(c) == state[Unit("dyn", c)]
SynQ(c) == state[Unit("synq", c)]
Acc(c) == state[Unit("acc", c)]

-----------------------------------------------------------------------------
(* Messages under way *)

HeldFor(w) == {k \in DOMAIN lq[w] : Port(w, k) \in DOMAIN held[Writer(w, k)]}

\* The messages of wire w, from the pipeline of its writers to its readers.
UnderWay(w) ==
  ToSet(FlattenSeq(lq[w])) \union {HeldAt(w, k) : k \in HeldFor(w)} \union ToSet(on[w])
  \union UNION {ToSet(rq[w][u]) : u \in Rhs[w]}

Load(w) ==
  Len(FlattenSeq(lq[w])) + Cardinality(HeldFor(w)) + Len(on[w])
  + MapThenSumSet(LAMBDA u : Len(rq[w][u]), Rhs[w])

SynapsesTo(c) == {m \in UNION {UnderWay(<<"coresyn", p>>) : p \in Props} : m.to = c}

\* The synapses that axons have asked for and no core has accumulated.
Missing ==
  MapThenSumSet(LAMBDA c : Dyn(c).owed - Acc(c).got, Cores)
  + MapThenSumSet(LAMBDA p : state[Unit("fdm", p)].owed, Props)
  + state[Unit("feeder", 0)].owed

\* The synapses that have left the propagators.
OutOfPropagators ==
  MapThenSumSet(LAMBDA p : Load(<<"syn", p>>) + Load(<<"coresyn", p>>), Props)
  + MapThenSumSet(LAMBDA c : Load(<<"synacc", c>>), Cores)

-----------------------------------------------------------------------------
\* No SIM_ERROR, SIM_FATAL or SYSTEM_ERROR is reached.
NoSimError ==
  /\ ~fault
  /\ ~state[Unit("sdd", 0)].error
  /\ \A c \in Cores : ~SynQ(c).error
  /\ \A p \in Props : ~state[Unit("as", p)].error /\ ~state[Unit("ps", p)].error

\* The board starts a timestep only when every axon of the one before has been
\* streamed whole.
AllStreamed == [][Tsm'.n # Tsm.n => Missing' = OutOfPropagators']_vars

\* A synapse reaches the accumulation unit in the timestep of the spike.
InOwnTimestep ==
  \A c \in Cores :
    /\ \A m \in SynapsesTo(c) : m.born \in {SynQ(c).n, SynQ(c).n + 1}
    /\ \A m \in UnderWay(<<"synacc", c>>) : m.born = SynQ(c).n

\* A core follows the board from timestep to timestep.
NoSkippedTimestep == \A c \in Cores : TsMgr(c).n \in {Tsm.n - 1, Tsm.n}

\* The board goes on from timestep to timestep.
TimestepsGoOn == <>(Tsm.n > MaxTimestep)
=============================================================================
