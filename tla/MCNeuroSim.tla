----------------------------- MODULE MCNeuroSim -----------------------------
(***************************************************************************)
(* Two cores and a propagator over three timesteps.  The clocks have the   *)
(* ratio of ddr, dram and main in the shipped specification, 0.5, 1 and 4. *)
(***************************************************************************)
EXTENDS Board, MCDesign

MCPeriod == <<1, 2, 8>>
MCPropOf == [c \in Cores |-> ((c - 1) % Cardinality(Props)) + 1]
MCAxonLen == [c \in Cores |-> [i \in 0..(NumNeurons - 1) |-> 7]]
\* Every synapse is for the first core.
MCTargets == {[i \in 0..(IoBufSize - 1) |-> 1]}
MCDynSections == {<< <<0>>, <<1>> >>, << <<0, 1>>, <<>> >>}
MCDelaySections ==
  {<<>>, << <<>>, << [delay |-> 2, spikes |-> <<2, 3>>, inh |-> FALSE] >>, <<>> >>}

\* The axons of the first core are long, and it is their only target.
BacklogAxonLen == [c \in Cores |-> [i \in 0..(NumNeurons - 1) |-> IF c = 1 THEN 40 ELSE 2]]
BacklogDynSections == {<< <<>>, <<0>>, <<>>, <<>> >>}
NoDelaySections == {<<>>}
=============================================================================
