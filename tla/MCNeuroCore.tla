----------------------------- MODULE MCNeuroCore -----------------------------
(***************************************************************************)
(* A core of the detailed mode with four neurons and two propagators over  *)
(* three timesteps.  The clocks have the ratio of dram and main in the     *)
(* specification the generator writes, 1 and 4; ts_buf_ is the code's.     *)
(***************************************************************************)
EXTENDS Simulation, NeuroCore, SequencesExt

MCPeriod == <<1, 4>>
MCPropOf == <<1>>
MCAxonLen == <<[i \in 0..(NumNeurons - 1) |-> 1]>>
MCCoreSections == {<< <<0, 3>>, <<>>, <<1>> >>, << <<>>, <<2>>, <<0, 1, 2, 3>> >>}

CoreMgr == state[Port0("tsmgr")]

-----------------------------------------------------------------------------
HeldFor(w) == {k \in DOMAIN lq[w] : Port(w, k) \in DOMAIN held[Writer(w, k)]}

\* The messages of wire w, from the pipeline of its writers to its readers.
UnderWay(w) ==
  ToSet(FlattenSeq(lq[w])) \union {HeldAt(w, k) : k \in HeldFor(w)} \union ToSet(on[w])
  \union UNION {ToSet(rq[w][u]) : u \in Rhs[w]}

\* The core has something to do of timestep n or an earlier one.
LeftOf(n) ==
  LET old(m) == "born" \in DOMAIN m /\ m.born <= n
  IN \/ \E w \in NCWires \ {Port0("axon")} : \E m \in UnderWay(w) : old(m)
     \/ \E m \in ToSet(state[Port0("acc")].queue) : old(m)

\* No SIM_ERROR of the core and no SYSTEM_ERROR is reached: state and delta of
\* a neuron, address and value of a write, and a synapse and its parity always
\* come together, and no synapse overtakes one of an earlier timestep.
NoCoreError ==
  /\ ~fault
  /\ ~state[Port0("nbc")].error /\ ~state[Port0("state")].error /\ ~state[Port0("delta")].error
  /\ \A q \in Queues : ~state[q].error

\* The core goes on to the next timestep only when no neuron, spike, lookup or
\* synapse of the one before is under way in it, although the five reports of
\* its units come over different wires and from two clocks; and no sum is
\* written into the memory of another timestep.
TakesWhenQuiet ==
  [][/\ CoreMgr'.n # CoreMgr.n => \A n \in {CoreMgr.n} : ~LeftOf(n)'
     /\ ~state[Port0("delta")].late']_vars
=============================================================================
