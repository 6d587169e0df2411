# NeuroSim and TSim in TLA+

NeuroSim simulates a neuromorphic system: boards of chips of cores that
integrate neurons and exchange spikes. It is written on top of TSim, a
cycle-level simulation framework that lives in `src/lib/tsim`. TSim gives a
design *modules* (units with a pipeline), *devices* (combinational units such as
gates and multiplexers) and *pathways* (wires with queues, latency, back-pressure
and arbitration); NeuroSim is a design made of them, in `src/src` and
`src/include`. The program has no tests beyond a few example designs and no
protocol documentation, so what its parts promise each other is written here.

The program is single-threaded. What is concurrent, and hard, is the *simulated
system*: dozens of units that communicate only through bounded queues, each
step of a clock cycle taken in two halves, and boards that synchronise by
counting packets. An error in it does not crash: a message is dropped, doubled or
left behind, a spike lands in the wrong timestep, or the boards wait for each
other for ever.

Contents: [the system](#the-system), [the modules](#the-modules),
[what is checked](#what-is-checked), [fairness](#fairness),
[what is proved](#what-is-proved), [what is only
model-checked](#what-is-only-model-checked), [what is not
modelled](#what-is-not-modelled), [the plan](#the-plan).

## The system

Paths are relative to `src/`; `T/` is `lib/tsim/src/`, `C/` is `src/Component/`, `B/` is
`lib/tsim/lib/booksim2/`, the network simulator under the router.

### TSim

| Component | State | Operations | What makes it correct |
|---|---|---|---|
| **Pathway** (`T/Pathway/Pathway.cpp`, `RRFaninWire.cpp`, `FanoutWire.cpp`, `Wire.cpp`, `Link.cpp`, `lib/tsim/include/TSim/Pathway/Pathway.h`) | ring of slots `msgprop` + `curidx`, ready masks, target LHS + `stabilize_cycle`, `wait_cycles` | `PreClock` (deliver to queues), `PostClock` (ready mask, flow, issue, deliver to devices, arbitrate), `SetExtReadyState` (from a Mux) | no message dropped, doubled or reordered; one driver at a time; nothing blocked for ever |
| **Endpoint** (`T/Pathway/Endpoint.cpp`) | `msgque`, `selected_lhs`, `resv_count`, capacity (0: consumed within the cycle) | `Assign`, `Peek`/`Pop`, `Reserve`; a TOGGLE message replaces the one that waits | never more messages than room; the newest level survives |
| **Module** (`T/Module/Module.cpp`) | `stalled`, ring of output slots `nextoutmsgs` + `omsgidx`, `nextinmsgs` | `PreClock` (stall decision, assign), `PostClock` (peek, `Operation`, pop, ahead-of-time assign) | outputs leave once and in order, inputs are used once, whatever the stalls |
| **Device**, **Mux**, **Gate** (`T/Device`) | last inputs, select level | `PreClock` (open or close the input pathways), `PostClock` (forward or compute) | an opened pathway's message is forwarded, not dropped |
| **RouterNetwork** (`T/Module/RouterNetwork.cpp`) | `msgqueue`, `arrived_msg_queue` per node, `msg_arrived` | `Operation` (admission, injection, output), `PacketArrivalCallback` | no queue overflows; each node gets its messages once, in one order |
| **ICController** (`lib/tsim/include/TSim/Module/ICController.h`), through which a board sends and receives | none of its own | forwards both directions in one `Operation` | no cyclic wait of two full directions |
| PCIeSwitch (`T/Module`), used by an example | none of its own | forwards packets by destination | |
| **Simulator** (`T/Simulation/Simulator.cpp`) | clock domains with `nexttime`, order of *clockers* | resolve the order of devices and pathways, step the domain that is due | a device is invoked after what it reads and before what reads it |
| **Component tree, units, testbench** (`T/Base`, `T/Simulation`) | components, ports, endpoints, clocks, powers | `AddChild`, `CreatePort`, `Connect`, `ExportPort`, `Validate`, `LoadTestbench` | the design that runs is the one that was written |
| Registers, scripts | register files, stimulus | loading, parsing | done before the simulation starts |
| **BookSim routing** (`B/networks`, `B/routefunc.cpp`) | wiring of a topology; what a packet carries (`ph`, `intm`, ...) | the routing function of every router a packet visits | every packet arrives; no ring of full buffers waits for itself |
| **BookSim network** (`B/routers`, `B/buffer_state.cpp`, `B/allocators`, `B/trafficmanager.cpp`) | flits in buffers, VC states, credits, requests, partial packets | one cycle of every router, channel and node | no buffer overflows, no VC mixes packets, every packet arrives whole and once |
| **BookSim traffic** (`B/traffic.cpp`, `B/injection.cpp`) | permutations, on/off states | draw a destination, decide whether to send | destinations exist, the load is what was asked for |

Interaction: a module writes to the LHS endpoint of a pathway and reads the RHS
endpoint of another; pathways look at both ends in their own clock function. The
simulator calls, for the clock domain that is due, first all *pre* functions
(modules assign what left their pipeline; pathways deliver the end of the wire)
and then the *post* functions, in which capacity-0 endpoints pass a message
through a unit in the same cycle. Three kinds of state are decided in one half
and relied on in the other: `stalled`, `selected_lhs` and the ready mask. A Mux
reaches into its input pathways, a pathway's arbiter reaches into the endpoints
(`selected_lhs`), and BookSim calls the router back.

### NeuroSim

| Component | State | Operations | What makes it correct |
|---|---|---|---|
| **TSManager** (`C/TSManager.cpp`) | `is_start`, `is_end`, `end_counter`, `ts_buf_`, timestep parity | decide that the board has finished, announce it, count the ends of all boards, flip the parity | a barrier over all boards |
| **PacketConstructor**, **PacketDecoder** (`C/`) | none | axon or end to packet, packet to axon or end; axons before ends | the end of a timestep is not seen before its axons |
| **TimestepReporter** (`C/TimestepReporter.cpp`) | counter, timestep | count ends | reports what every board has finished |
| **Controller**, **NeuroSimSystem**, **NeuroSim** (`C/`) | none | wiring; the tree of AND gates for the idle levels | every unit that can hold work is in the tree |
| **Propagator**: `AxonClassifier`, `AxonMetaRecv`, `AxonTransmitter`, `AxonStreamer` | streams in progress, round-robin index, tags | fetch the synapses of an axon and stream them to the cores, report idle | every axon is streamed whole and once; idle is not reported early |
| **AxonStorage**, **PseudoStorage** | requests, reservations in the output queue, clock parity | answer reads after a latency, modules with `pdepth` 0 that ignore stalls | a reservation is always there for the answer |
| **FastDelayMgr**, **AxonMetaQueue**, **AxonMetaTable** | delayed axons by timestep | store and release | an axon is released once, in its timestep |
| **FastCore** (fast mode), **NeuroCore** (detailed mode) with `FastCoreTSMgr`, `CoreTSMgr`, `FastSynQueue`, `SynDataQueue` | parity of the core, idle flags | take the board's parity when all units are idle; keep synapses of the next timestep waiting | no synapse is accumulated in the wrong timestep |
| **NBController**, **NeuronBlock**, **StateSRAM**, **DeltaStorage**, **Accumulator**; `CoreDynUnit`, `CoreAccUnit` in fast mode | neuron index, pipeline of reads | run the dynamics of all neurons once per timestep | state and delta of one neuron meet; end is announced once |

Interaction: neurons fire in the cores; `AxonClassifier` sends an axon to its
own propagator or to `PacketConstructor`; packets cross the link of the board and
the router; `PacketDecoder` hands axons to the propagators and ends to
`TSManager`. `TSManager` sees two *levels*: `DynFin`, the conjunction of the cores'
dynamics, and `Idle`, the conjunction of the propagators. When it has counted as
many ends as there are boards it flips the parity that starts the cores' next
timestep.

### What is hard

* **Stale state.** A sender looks at a queue `Latency + 1` cycles before its
  message gets there. The module decides `stalled` in the first half of a cycle
  and assigns without looking in the second.
* **Undefined values.** `ring_part` in BookSim's torus routing, the parities of a core's
  queues, `msg_arrived`: what the constructor leaves unset is any value here.
* **Interleavings.** Two senders on one wire; an arbiter that turns away; readers
  in other clock domains; boards a timestep apart that count each other's packets.
* **Ordering.** Devices get a message one half cycle before queues do; outputs of
  one `Operation` leave at different times; packets overtake each other in
  BookSim, which the router hides; axons overtake a waiting end.
* **Boundaries.** Capacity 0, rings of the next power of two, the two 32-bit
  shifts of a pathway with many receivers, counters compared with `==`.
* **Liveness.** Back-pressure in cycles, a fair arbiter whose turns are lost, a
  pulse that must be seen, a message left behind until the next one comes.
* **Deadlock.** Packets longer than the buffers hold channels around a ring while each
  waits for the next; virtual channels and turn restrictions are what breaks the circle,
  and they differ for each of BookSim's routing functions.

There is no persistence and no loss of messages in the simulated links, and nothing
is ever given up after a time, so there is no crash recovery, retry or timeout to
model. `PROJECT.json` lists the hazards at their lines with the properties that cover
them.

## The modules

| Module | Role |
|---|---|
| `Channel` | abstract: bounded lossless FIFO channels from sources to sinks |
| `Pathway` | the pathway with its endpoints; implements `Channel` |
| `PathwayProofs` | theorems about `Pathway` and `TogglePathway` |
| `MCPathway` | instances for TLC |
| `TogglePathway`, `MCTogglePathway` | a pathway of levels, with histories of what was written and read |
| `TSimModule`, `TSimModuleProofs`, `MCTSimModule` | the pipeline of a module |
| `RouterNetwork`, `RouterNetworkProofs`, `MCRouterNetwork` | the router between the boards |
| `PacketNetwork` | abstract: a network that delivers every packet whole and once, what `RouterNetwork` assumes |
| `BufferState`, `Allocators`, `IQRouter`, `EventRouter` | BookSim's view of the next buffer, its allocators and arbiters, its two kinds of router |
| `BookSimNetwork`, `MCBookSimNetwork` | routers, channels and traffic manager, cycle by cycle; implements `PacketNetwork` |
| `IQRouterProofs` | one router: what its allocators return and what a cycle of it keeps, as lemmas about the operators of `Allocators` and `IQRouter` |
| `BookSimProofs` | theorems about `BookSimNetwork` with any routers |
| `BookSimRoute` and `KNCube`, `IndirectNetworks`, `CMesh`, `FlatFly`, `DragonFly`, `AnyNet` | the topologies and their routing functions |
| `BookSimRouting`, `MCBookSimRouting` | one packet on its way, and the waiting of all packets |
| `Traffic` | traffic patterns and injection processes |
| `Timesteps` | abstract: the barrier between boards |
| `BoardBarrier`, `BoardBarrierProofs` | the controllers of all boards over an interconnect that is `Channel`; implements `Timesteps` |
| `Simulation` | the loop of `Simulator::Simulate` over any modules, pathways and levels, in several clock domains |
| `SimulationProofs` | theorems about `Simulation` and the modules of `NeuroSim` and `NeuroCore` |
| `Design`, `MCDesign` | building and loading a design, and the order of its clock functions |
| `NeuroCore`, `MCNeuroCore` | the core of the detailed mode between its two clocks |
| `FastCore`, `Propagator`, `NeuroSim` | the `Operation` of each module of a board, and the wiring |
| `Board`, `MCNeuroSim` | the running board and what a timestep of it promises |
| `Selection` | the messages of a sequence that belong to a set; lemmas about them and about recursive functions on numbers |

**Pathway.** One step of the model is one call: `PreClock` and `PostClock` of the
pathway, an `Assign` by a writer, a `Pop` by a reader, a `SetExtReadyState` by a
Mux. `phase` says which half of the cycle comes next. Writers respect what the
code makes them respect: a module assigns to a queue that is not full, or ahead
of time to a capacity-0 endpoint that is empty and *selected*. Readers may pop at
any point, which covers readers in another clock domain, except that a capacity-0
endpoint is emptied within the cycle, as the code reports an error otherwise.
The 64-bit ready mask is a function on `Bits`; `BitOf` is the 32-bit shift of
`1 << rhsid`, and `AllProcessed` the test `processed == -1` on what starts as
`-1 << w_numrhs`, an `int` too. So `MaskBits` is 32 in the program and smaller in a
run, on the same side of the boundary as the program is with as many receivers: above
the number of receivers (`pathway_fanout`, `pathway_toggle`), equal to it
(`pathway_fanin`) or below (`pathway_wide`). Messages are model values with a source and a destination;
widths are abstracted to `CyclesPerMsg`. `SlotsFor` is the loop that sizes the
ring.

**TSimModule.** `Operation` is the derived class and hence anything: it uses any
subset of the PLAIN inputs it is shown and writes any subset of its outputs. An
output is the number of the `Operation` that wrote it and an input the number of
its arrival, so that order and loss show in sequences of numbers. `MaxOps` and
`MaxIn` bound them. The pathways at the ports are `Deliver`, `Drain` and `Select`.
`pdepth = 0` modules, which ignore stalls and reserve room instead, are in `Simulation`.

**RouterNetwork.** `Cycle` is one call of `Operation` together with the assignment
the previous one left in the pipeline. The admission loop over the receive ports
is the recursive function `admission`. BookSim may deliver any number of packets
up to `MaxArrivals` to any node in one call, in any order; the callback ignores
their identity, so only the counts matter. What it takes for granted of BookSim is
`PacketNetwork`, and `BookSimNetwork` is shown to implement it. There, `MaxArrivals` is for one
cycle of BookSim and is the number of subnets, as each has one ejection channel per node;
`Operation` advances BookSim by eight cycles (`T/Module/RouterNetwork.cpp:210-214`), so that
in `RouterNetwork` it is up to eight times that. In the run it is 2, which restricts nothing: with
queues of 3, admission never lets more than two messages be on their way to a node (3 gives
the same states). The theorems hold for any value. `log` and `delivered` are histories.
`msg_arrived`, which the constructor does not initialise, starts arbitrary.

**BoardBarrier.** Each board has the state of `TSManager` (`is_start`, `is_end`,
`end_counter`, `ts_buf`, `cur_timestep`), the queue in front of `PacketConstructor`
and the wires between the controllers' parts. `cur_timestep` is counted where the
code keeps a parity and a counter. The interconnect is an *instance of `Channel`*:
a link is a FIFO into the router and the router moves a packet to all its
destinations at once. `RouterNetwork`'s `TotalOrder` and `AllDelivered` are what
makes that right; `ImplementsLiveChannel` makes the links right. `ICController` divides
the FIFOs of a board: of the packets in `pending`, `sent` are on its link out and the
others on the wire `pkt_send`; of those in `chan`, `received` are on the wire `pkt_recv` and the others
in the router's queue and on the link in. It moves a packet in each direction, but none if
*either* of its outputs is full (`ICStalled`), as `Module::PreClock` stalls a module as a
whole; `PacketDecoder` is stalled by the wire `remote_tsend`, and the router needs room in
every queue for a broadcast, even in that of the board it comes from (`RoomNeeded`). Cores and
propagators are the environment. The level `DynFin` may change back before `TSManager`, which
is stalled while the ends of its board cannot leave, has seen it. One assumption is stated at
an action: the axons of a timestep are queued before the board has been finished for `ts_buf`
Operations. Packets carry their sender and timestep, which the program's do not
have, for the properties only; no action looks at them except to route.

**BookSim's routing.** A network is a record: its routers, the router and port at the end
of every output, the nodes' ports. `BookSimRoute` has what all routing functions share
(`OutputSet`, the ranges of virtual channels of `AllVCs`), and one module per topology
has its wiring and each of its routing functions, translated case by case. `BookSimRouting`
takes one packet from its source through the functions, with every value
`RandomInt` may draw and every state of the links an adaptive function may look at as a
choice, so that `Arrives` is about all of them. For deadlocks the whole network is
considered at once: `NoCircularWait` computes the pairs *holds – may have to wait for* of
virtual channels over all sources and destinations and removes those that always
drain; what is left must be empty. An adaptive packet drains if *one* of the channels
it may ask for does. The analysis is conservative: it does not ask whether the packets of
a circle can meet.

**BookSim's network.** A step of `BookSimNetwork` is a call of `TrafficManager::_Step`: packets
are generated, nodes inject a flit each, flits and credits are read from the channels,
the routers run their internal stages (`IQRouter`: route, VC allocation, switch
allocation with its speculative, piggybacked and held forms, crossbar; `EventRouter`: the
same by events), nodes eject and return credits, packets retire when their tail is there.
`BufferState` has the five buffer policies. `Allocators` has PIM, iSLIP, LOA,
separable, wavefront, SELALLOC and MaxSize and the arbiters (round-robin, matrix, tree,
priority) as functions from requests and their memory to grants; random ones
are relations. The routing of the ring is a parameter. Flits are records of their packet
and place; payload, statistics and latencies above one cycle are left out. Restrictions on
options that the code states or silently needs are `ConfigAssumption`.

**Traffic.** A pattern is the set of destinations it may draw for a source. TSim sets the
destination of each packet itself and draws from none of them; `MCBookSimRouting` evaluates, as
assumptions of the `routes` run, that permutations permute, patterns do what their names
say, no destination lies outside of the network, and on/off sources send at the load they
are given, together with the exceptions below.

**Design.** Operators on a record that holds a design: `NewComponent`, `CreatePort`,
`Connect` and so on yield the next one. `ClockDomains` is the search of `LoadTestbench` for
units and their clocks; `ScheduleOf` is its search for the order of clock functions, with the
64-bit masks as sets of bits. It walks a `std::map` ordered by addresses and erases the
element it stands on: `Walks` therefore visits in any order and may leave out what
follows an erased element. Writes through the iterator `end()` are taken to hit nothing the
search reads. `MCDesign` builds small designs call by call and states, as assumptions TLC
evaluates with the `board` run, that every outcome of the search calls a pathway after the
devices that write it or open it and a device after what it reads, which
`Simulation` relies on (`ScheduleRespectsOrder`), and what is and is not reported of
mistakes.

**NeuroCore.** The core of the detailed mode: `NBController`, `NeuronBlock`, `StateSRAM`,
`DeltaStorage`, `AxonMetaQueue` with its table, `SynDataQueue`, `Accumulator`, `CoreTSMgr`, one operator
each, in two clock domains as wired by `NeuroCore`. The board is the environment: it
changes the parity when the core has said that its dynamics are over and the
synapses have been sent for as long as `ts_buf_` covers. The parities that `SynDataQueue`
leaves uninitialised start with any value.

**Simulation.** A step is one clock of the domain that is due (`IsNext` compares
`nexttime`, ties go by name), in the order of `Simulate`: `PreClock` of the modules,
of the pathways, `PostClock` of the modules, of the pathways and of the gates. It is
the composition of what `Pathway` and `TSimModule` model call by call, for
pathways of latency 0, whose connection holds at most one message (`on`), and modules
of any depth; modules of depth 0 run while they are stalled and reserve room
(`resv`). A TOGGLE pathway with the AND gates in front of it is a *level*: it is
unknown until every leaf has written. The modules are a parameter: `Operation(u, s, in,
size, ch)` yields new members, the messages written and the inputs used.
`IsFinished` is the testbench's end of the simulation, the only stop.

**FastCore, Propagator, NeuroSim.** One operator per module, named after the class,
with the class's members as a record; a step inside an `Operation` that does one thing
(`DynWalk`, `JobDone`, `Emitted`, `SpikeFetched`) is an operator of its own. The modules of
a `FastCore` are `CoreDynUnit`, `FastSynQueue`, `CoreAccUnit`, `FastCoreTSMgr`; those of a
`Propagator` are `AxonMetaRecv`, `AxonStreamer`, `PseudoStorage`, `AxonClassifier`,
`FastDelayMgr`; the chip adds `AxonTransmitter` and `SynDataDistrib`, the board `InputFeeder`
and `TSManager`. `NSLhs`, `NSRhs`, `NSLhsCap`, `NSLeaves` are the `Connect` calls and
endpoint capacities of the constructors. Which neurons spike is data (`DynSections`, the
script), what the DRAM answers and when is a choice (`Answers`), as are the members that
the constructors leave uninitialised (`ts_parity`, `state_counter_`; of the values of
`io_counter`, the constant `IoCounters`, the runs take 0 only, see below). A script is taken to
have no more spikes than `FastDelayMgr` accepts (`C/FastDelayMgr.cpp:106-109`). Four members are
histories that no module reads: `n` counts timesteps where the code has the parity,
`owed` and `got` count synapses, `born` is the timestep of a spike. One board with one
chip is modelled (`num_boards = 1`); several boards are `BoardBarrier`. The report that
ends the simulation is taken to arrive at once.

## What is checked

| Run | Instance | Shows |
|---|---|---|
| `pathway_fanout` | 1 sender; queues of 2 and 3 and a device behind a Mux; latency 1; two beats per message | `RoomForInFlight`: back-pressure is early enough. `ImplementsLiveChannel`: a broadcast reaches queue and device once, in order; nothing blocks for ever |
| `pathway_fanin` | a queued and a queueless sender behind the arbiter; latency 2 | `NoDrop`, `OneDriver`, `SelectedDrives`, `NoGhosts`, `ImplementsLiveChannel`, `NoStarvation` |
| `pathway_toggle` | levels; a queue of 1 and a device | `NewestLevelKept`, `LevelSettles` |
| `pathway_wide` | 33 receivers, 32 reachable bits | **violates** `NoDrop`, see below |
| `module` | 2 stages; queued and queueless output; PLAIN and TOGGLE input; 3 Operations, 2 arrivals | `NoRejection`, `OutputsInOrder`, `LeaveTogether`, `PlainInputsOnce`, `ToggleInputLatest`, `PipelineDrains` |
| `router` | 3 nodes, 2 broadcasts, 2 unicasts, queues of 3, up to 2 arrivals per node and call | `QueueNeverExplodes`, `TotalOrder`, `AllDelivered` |
| `boards` | 3 boards, one of which sends axons, 2 timesteps, `ts_buf` 1, links and queues of one packet; 695 000 states | `EarlyByOneAtMost`, `NoStraggler`, `NoOverrun`, `ReporterHonest`, `ImplementsBarrier`, `KeepsGoing` |
| `board` | 2 fast cores, 1 propagator, 1 feeder, 2 neurons each, 3 timesteps; clock periods 1 : 2 : 8 | `NoSimError`, `AllStreamed`, `InOwnTimestep`, `NoSkippedTimestep`, `TimestepsGoOn`. Evaluates `MCDesign` |
| `routes` | 39 networks of all topologies and routing functions | `LegalRoute`: no port or VC that does not exist. `Arrives`: no packet wanders for ever. `NoCircularWait`. Evaluates what `Traffic` promises |
| `network` | a ring of four routers, 5 packets of 9 flits in buffers of 6, 15 configurations | `CreditsMatch`, `WholePackets`, `OutputBufferBound`, `ImplementsPacketNetwork` |
| `core` | 4 neurons, 2 propagators, 3 timesteps, clocks 1 : 4; 169 000 states | `NoCoreError`: no assertion, mismatch of parities or lost half of a pair. `TakesWhenQuiet`: the core starts a timestep only when nothing of the last one is under way |
| `board_backlog` | `board` with one long axon, all of it for one core | **violates** `NoSkippedTimestep`, see below |

Each property of a passing run is violated by a mutant of the code it is about (a
dropped guard, an off-by-one, a missing reset); the mutants stand next to the
definitions they replace.

*Why the bounds are enough.* A pathway's rules compare a queue with `Latency`;
latency 1 and 2 with queues from `Latency + 1` up make every slot of the wire, the
full and the nearly full queue occur, and latency 2 gives the ring a slot the wire
does not use. Two senders suffice for a turn to be lost, and three receivers for
a broadcast to find them in different states. Two pipeline stages give a ring of
four slots; three writing Operations fill every slot between its two ends, and the
module may stall after each of them. With three nodes
a broadcast has two destinations and another source competes for both; queues of
3 make admission refuse. Three boards are the first number for which an end of one
board can arrive at another before that of a third; with one of them sending axons a board
can be ahead of, level with and behind another. With a second sender the instance has
too many states for a run. Links and queues of one packet make every board wait: `Gridlock`
and `Missed` both occur, in 80 000 of the states.
`KeepsGoing` also holds for three boards with queues of two and `ts_buf` 0 (1 600 000
states), and for two boards that both send up to two axons over queues of two (424 000).

The board has the clock ratio of the shipped specification (`ddr` 0.5, `dram` 1, `main`
4). The burst is 2 entries instead of 8, and a reservation 1 place instead of 4, so that it
is half a burst as in the code; axons of 7 entries take four bursts, the last one short.
Two cores let one be late while the other is done; three timesteps let the parity come
back to its first value. The DRAM answers in any order within its latency. Queues
that bound something are small (synapse queue 4, entry queue 2, output queue
5), so that they fill and the modules stall.

The routing functions are checked on the smallest networks in which each of their cases
occurs: meshes and tori of 3 x 3 and rings of 2 to 4 (a dateline, a tie between the two ways,
an even and an odd radix), TSim's own torus with 16 VCs, butterflies and fat trees of
three stages, concentrated meshes with express channels (k = 4, c = 4), flattened
butterflies of 3 x 3 and of one row with four nodes per router, dragonflies with minimal
and UGAL routing, an irregular network of five routers. 70 807 states, 45 s. In `network`
packets of nine flits exceed a buffer of six, so that one packet holds two routers; in a
ring of four they close the circle, and two meet at one node. Two subnets, and event-driven
routers, are checked with three and four packets. 92 070 states, 115 s. The detailed core
has four neurons so that the last, the first and two in between differ, bursts of two
synapses from two propagators, and three timesteps for the parity to come back.

*What the runs taught.*

* `board_backlog`: the end of a timestep is believed when the levels `DynFin` and idle have
  been true for `ts_buf_ + 1` Operations. A core whose accumulation lags behind has not
  started the timestep yet, and until it does its level says that its dynamics *are over*.
  It is not waited for; the parity flips twice, equals the one it has, and the core
  skips a timestep (`C/TSManager.cpp:114`, `C/FastCoreTSMgr.cpp:91`).
* Three more conditions came out of instances that are not among the runs. `ts_buf_` is
  counted down in cycles that only *look* finished and not set back; with axons of different
  lengths a later end is then believed at once (`AllStreamed` fails). All propagators share
  `SynDataDistrib`; with two of them and a short synapse queue a synapse of the next
  timestep blocks one of the old timestep (`InOwnTimestep` fails), which one
  propagator, as shipped, excludes. `RESERVE` takes 4 places for a burst of 8 and each
  `Assign` gives one back only while any is taken, so short bursts leave places taken.
* `PseudoStorage` never initialises `io_counter` (`C/PseudoStorage.cpp:37-42`). Any value but
  0 is counted down at the start and leaves `entry_cnt` too small for good. With `IoCounters`
  = {1} `AllStreamed` fails: `entry_cnt` never comes back to 0, so the storage never reports
  that it is idle or busy; the gate of the idle levels waits for its report, and `TSManager`
  believes from the start that the propagators are idle. Values above the size of a burst
  would read before the first element of `io_buffer` and are left out.
* *Boards can wait for each other for ever* in two ways, which `KeepsGoing` excepts and which
  are proved to be final. `Gridlock`: a board whose link out is full takes nothing from the
  router either, since its `ICController` stalls in both directions. When the packets at the
  heads of such links need room in the queues of such boards, none of them moves again; an end needs room
  in every queue, its own board's included. In the code 256 packets fit in the router
  and 256 at the board, and 64 wait at the end of a link out (`C/NeuroSimSystem.cpp:38-65`), so that
  it takes a backlog of axons that long. `Missed`: if `TSManager` is stalled by
  `board_tsend` while the cores start *and* end their dynamics, the level is replaced before it
  is shown, `is_start_` stays false, and the board never counts its end. `KeepsGoing` further
  assumes that the interconnect delivers (`Delivers`): a message that the router left behind
  (see below) is delivered only with the next one, which may not come when all boards wait
  for it.

* `pathway_wide`: `AddEndpoint` accepts 64 receivers
  (`T/Pathway/Pathway.cpp:158-160`, `MAX_ENDPOINTS` in `Pathway.h:28`) and the mask is
  a `uint64_t`, but it is addressed with `1 << rhsid`, the shift of an `int`. On the
  machines the program is built for it wraps at 32, so receivers 0 and 32 share a
  bit, the later one decides it, and a message to the full one is dropped. In the
  proof this is the assumption `NumRHS <= MaskBits` of `NeverDrops`.
* One receiver fewer is not enough for losslessness. `PostClock` takes a broadcast off
  the wire when `processed == -1`, and `processed` starts as `-1 << w_numrhs`
  (`T/Pathway/Pathway.cpp:518`), again the shift of an `int`: with 32 receivers it is
  all ones (on x86) before a receiver is served. If one receiver has capacity 0, so that
  the test is made at all, a broadcast is gone as soon as it is at the far end, and no
  queueing receiver gets it. Nothing is counted as dropped. `MaskFits` in
  `PathwayProofs` is the exact hypothesis, and `BoundaryLosesBroadcast` the step that
  needs it. `pathway_fanout` and `pathway_toggle` fail when their `MaskBits` is the
  number of their receivers.
* The round-robin arbiter is fair only under conditions. With slow readers, or
  messages of several beats, a sender can lose its turn every time. `NoStarvation` is
  therefore stated for readers that keep up, and `ImplementsLiveChannel` promises
  only that *some* sender gets through.
* The router leaves a message behind when two packets reach a node in one
  `Operation`: it sends one and resets `msg_arrived`. `AllDelivered` is stated for
  arrivals one at a time. The message does go out when the next packet arrives.
* Axons of the next timestep may overtake an end that waits, since
  `PacketConstructor` prefers axons. They are early by one timestep at most
  (`EarlyByOneAtMost`), which the parity bit of an axon can express.
* *BookSim's routing.* The dragonfly needs more than the 3 VCs that its comment asks
  for (`B/networks/dragonfly.cpp:461`), `valiant_mesh` and `valiant_torus` can deadlock
  although comments say that they cannot (`B/routefunc.cpp:1313`, `:1316`); these are not
  among the functions `NoCircularWait` is stated for. `valiant_torus` and `valiant_ni_torus` use
  `ring_part` unset (`:1376`, `:1466`), and the latter tests `f->ph` where it should test the
  phase of the intermediate node, so that a packet can circle for ever. `OutputSet` keeps one
  range per priority (`B/outputset.hpp:59`), so adaptive functions offer fewer channels than
  they add. With k = 8, express channels of the concentrated mesh send packets back
  and forth. `min_dragonflynew` never finds that source and destination share a group.
  `anynet` does nothing against deadlocks, and building its table does not end when the
  network is not connected.
* *BookSim's network.* With more than one iteration SELALLOC's grants are no matching
  (`B/allocators/selalloc.cpp:60`). MaxSize sizes one array by the wrong side
  (`B/allocators/maxsize.cpp:115`), harmless as long as there are no more outputs than inputs.
  Speculation with `spec_check_cred` needs `spec_check_elig`; "prio" speculation has no
  effect with iSLIP, which ignores priorities. `_SWHoldUpdate` asks
  `_output_buffer[expanded_output]` for room (`B/routers/iq_router.cpp:1047`), though the buffers
  are one per output: `ConfigAssumption` asks for no output speedup when switches are held.
  The rotating offset of switch allocation advances only past winners, and one VC can
  be passed over for ever. The event router's nodes return credits without head and
  tail marks (`B/trafficmanager.cpp:1273`), so a VC to a node never becomes idle again: a second
  packet for the same node and VC waits for ever, and the event-router configurations send one
  packet to each node. A packet that had to wait there goes on with one flit per round trip,
  and its `vct` mode counts flits where it means packets (`event_router.cpp:50`).
* *The chaos router cannot be constructed*: it reads `const_flits_per_packet` and
  `multi_queue_size` (`B/routers/chaos_router.cpp:53`), which `B/booksim_config.cpp` never
  declares, and `GetInt` of an unknown field ends the program.
* *Traffic.* `asymmetric` never reaches the last node if their number is odd;
  `tornado` and `neighbor` leave out nodes beyond radix^n; `on_off` takes its initial states
  from the third parameter (`B/injection.cpp:112`) and derives rates that can exceed 1;
  `background` draws for ever if every node is excluded.
* *The detailed core.* `TakesWhenQuiet` depends on `ts_buf_`: with 0, a synapse that
  reaches `SynDataQueue` as the parity flips is accumulated in the next timestep. With two
  neurons per core `DynFin` is true a cycle early, with more it is not. The
  detailed chip does not run as built: `NeuroChip` connects a port `AccIdle` of every core,
  `NeuroCore` exports none, and `Component::Connect` reports the error and goes on
  (`T/Base/Component.cpp:582`), so its gate `accidle_and` never answers. `AxonMetaQueue` drops
  the delay it finds in the table.
* *Loading a design.* `IsAncestor` and `IsDescendant` never compare
  (`lib/tsim/include/TSim/Base/Component.h:77`), so `AddChild` refuses nothing, and a module added
  twice is called twice in a cycle. A second endpoint on a port leaves the first
  connected to it and unread, which `Validate` does not see. A loop of devices through
  their inputs overflows the stack before the search could report it; one through a
  select is reported. A level that is a Mux's input and another's select makes the load
  fail or succeed by chance. Masks shift an `int` by the port's number, so a gate of 33 inputs
  is called when 32 of them are there (`T/Simulation/Simulator.cpp:277`, `:299`). The share of
  static and dynamic power of a component is computed from its parent's modules
  (`T/Base/Component.cpp:188`), and nested shares of dissipation do not add up.
* An end counter may exceed the equality it is tested for only if an end is
  announced twice; `NoOverrun` and `ImplementsBarrier` show that it is not.

## Fairness

* *The simulator never stops calling the clock functions.* The loop of
  `Simulator::Simulate` invokes every clocker of a domain in each of its cycles:
  weak fairness of `PreClock`, `PostClock`, `Cycle` and the actions of the controllers.
* *Readers read.* A module peeks in every cycle in which it is not stalled; its
  stall ends when its own outputs drain: weak fairness of `RHSPop`, `Drain`, `Transmit`.
  The liveness of a composition with cyclic back-pressure is not assumed anywhere;
  `KeepsGoing` has the queues, links and wires of the boards in the model.
* *Muxes and arbiters come back.* A Mux opens a pathway again and again, also in
  cycles in which no beat is being transferred, and an arbiter turns to a sender again
  and again: strong fairness, since they are closed in between. It is an assumption
  on the design, stated at the definitions.
* *BookSim delivers.* `RouterNetwork` assumes that every node's `msgqueue` becomes empty
  again and again. `ImplementsPacketNetwork` shows it from weak fairness of the network's
  cycle alone, which the loop of `_Step` justifies; in `BookSimRouting` a packet moves on
  (weak fairness of `Hop`), which `NoCircularWait` is there to justify.
* *The board is clocked.* `FairSpec` of `Simulation` has weak fairness of `Next`, the loop
  itself. Nothing else is assumed there: that queues drain and the board goes on
  (`TimestepsGoOn`) follows from the modules. The DRAM's answer is bounded by
  `MaxLatency`.
* *Work ends* (in `BoardBarrier`, where the cores are the environment). Dynamics end and propagators
  get through their axons (weak fairness of `CoreFinish` and `PropagatorDone`).
* *The interconnect of the boards delivers.* This is no fairness of `BoardBarrier` but the
  hypothesis `Delivers` of `KeepsGoing`: the router takes a packet its queues have room for,
  and what is queued comes over the link. `AllDelivered` shows it of the router if packets arrive one
  at a time.

No sender is ever forced to send: the properties say what follows when it does.

## What is proved

The proofs are checked by TLAPS for every value of the constants that the
assumptions allow: any number of ports, any latency and capacity, unbounded time.

* **`PathwayProofs!TypeCorrect`**, `Spec => []TypeOK`, from the assumptions the
  constructor and `Validate` enforce.
* **`PathwayProofs!NeverDrops`**: for PLAIN messages and at most `MaskBits`
  receivers, `Spec => []NoDrop`. `NoDrop` is not inductive. The invariant `RoomInv`
  adds `RoomForInFlight` (a receiver's queue has room for each message on the wire
  *and* those ahead of it), `NoGhosts` (otherwise an old slot could reach a
  queue that was not asked) and `DevicesServed` (a capacity-0 receiver is free when
  the wire is sampled for it). The heart is `ReadyMeansRoom`: a bit that is set for a
  message's destination means more room than the wire can hold; issuing puts the
  message at the near end, and each step of the wire moves it one nearer while
  the queue grows by one at most.
* **`PathwayProofs!RoomIsKept`**, **`NoGhostInRing`**: the two parts of `RoomInv` that
  the runs check. `NoGhosts` needs no hypothesis: `Latency <= PropIdxMask`, which
  `SlotsFor` guarantees, is all it rests on.
* **`PathwayProofs!PathwayImplementsChannel`**: for PLAIN messages and `MaskFits`
  (fewer than `MaskBits` receivers, or just as many and all of them with a queue or all
  without),
  `Spec => Chan!Spec`, the safety half of `ImplementsLiveChannel`. What is on the wire for
  a receiver is `OnWire(r)`, the messages for it in the slots of the ring that are in
  flight, and the refinement appends it to the receiver's queue. The lemmas
  `OnWirePreClock` and `OnWirePostClock` say what one half of a clock cycle does to it: it
  loses its head exactly when the queue (or the capacity-0 device) gets it, and gains its last
  exactly when a message is issued. `NullifiedIsServed` shows that the bits of `processed`
  say what they should under `MaskFits`; **`BoundaryLosesBroadcast`** shows that they do
  not beyond it. `PostClock` is thus `Send` of the issued message,
  `RHSPop` is `Receive`, and everything else stutters. `RoomForInFlight` supplies the guard of
  `Send`, that every receiver has room.
* **`PathwayProofs!NewestLevelIsKept`**: `ToggleSpec => []NewestLevelKept` for one writer that
  broadcasts levels, under `MaskFits`. `ToggleInv` adds that at most one level waits at each end and that
  there are no ghosts; the newest level is then the last of writer's queue, wire, reader's queue
  and what the reader was shown, wherever a new one replaces an old one.
* **`PathwayProofs!WireHasOneDriver`** and **`SelectionIsExact`**: `OneDriver` and
  `SelectedDrives`. The strengthening `DriverInv` says that what is on the wire comes
  from the current target unless it is `Draining`: after a change of target, messages
  of the old driver are within the last `stabilize_cycle` slots.
* **`TSimModuleProofs!NeverRejected`**: `Spec => []NoRejection`. `PostClock` assigns
  capacity-0 outputs without looking. `Room` says that they are free in a cycle
  that is not stalled, and `AheadLeft` that `PreClock` never assigns one itself, since it
  left ahead of time: neither holds without the other.
* **`TSimModuleProofs!PlainUsedOnce`**, **`NewestLevelShown`**: `PlainInputsOnce` and
  `ToggleInputLatest`, from `Inputs`: a PLAIN input stays in its queue until it is used and
  is never kept over a cycle; of a TOGGLE input the newest value is in the endpoint or, if that is
  empty, kept for the next `Operation`.
* **`TSimModuleProofs!OutputsLeaveInOrder`**, **`OutputsLeaveTogether`**. `Order` speaks of the
  pipeline as it is seen from its end: what one `Operation` wrote is in one place and older than
  what is behind it (`Rows`), each port has sent the first of what it made and the rest is
  under way (`Partition`), and whatever has been sent is older than all that is under way, but for
  what a capacity-0 output sent ahead from place 0 (`Behind`). `Depth` is why an `Operation` finds
  its slot empty. The ring and its index only come in when a step is read as one that fills a place,
  lets a place leave, or moves all of them.
* **`RouterNetworkProofs!RouterQueueNeverExplodes`**, **`RouterKeepsTotalOrder`**. The loop over the
  receive ports is a recursive function, and `Selection!UpTo` proves a fact about all its values from
  the first and the step. What a turn keeps: there is room for all that has been sent and the minimum is
  a lower bound of it (`Room`), and what has been sent is what the log says (`InOrder`).
  Both properties are then inductive together with the types.
* **`SimulationProofs!ReadersNeverOverrun`**, **`WritersNeverOverrun`**, **`OnlyReservationsOverflow`**: the
  loop of `Simulate` over *any* wiring of modules in *any* clock domains. A message that enters the
  connection has room with every reader it is for, and until the pathway's next clock, whichever clocks
  come in between, the readers only pop (`ReadersHaveRoom` is inductive with the
  types). A writer is checked one clock before its message is assigned: `RoomToAssign` says that a module
  with `pdepth > 0` that runs has room for one more in all its endpoints, and `HeldIsQueued`
  that what it keeps is never for an endpoint without capacity, which needs every port to be that of
  one endpoint (`WiringAssumption`, which TLC evaluates on both designs). The `SYSTEM_ERROR` of an
  `Assign` is then left to modules with `pdepth = 0`, which run while they are stalled, and to reservations;
  that `PseudoStorage`, the only one of a board, does not reach it either depends on its own
  counting and is model-checked. The theorems ask that an `Operation` pops only what it was
  shown (`UsesWhatIsShown`; in the code it can only clear an entry of `nextinmsgs`).
* **`SimulationProofs!BoardNeverOverruns`**, **`CoreNeverOverruns`**: the thirteen modules of a board in fast mode
  and the twelve of a core in detailed mode satisfy this, so that readers and pipelined writers stay
  within their capacities for any number of cores and propagators.
* **`BookSimProofs!OutputBuffersBounded`**, **`NetworkInvariant`**: `Spec => []OutputBufferBound`,
  for any number of routers, ports and virtual channels, any routing function and traffic, and every
  configuration `ConfigAssumption` allows. It is the assertion at the end of `_SwitchUpdate`, and a flit that
  crosses needs the whole pipeline of the router to have been right. `OutputBufferBound` says nothing of
  why so few flits cross to an output in a cycle; `NetworkInv` does:
  * `Staged`: every input VC is on the lists of the pipeline (`_route_vcs`, `_vc_alloc_vcs`, `_sw_alloc_vcs`,
    `_sw_hold_vcs`) that its state says, and `Lists`: once. A VC that were listed twice would be granted twice.
    `Holding`: two VCs that hold the switch hold different expanded inputs and outputs.
  * `AllocatorsReady`: the allocators are in a state from which **`AllocateMatches`** shows that they return a
    *matching* of what was requested, whatever their turns are. It is proved for `islip`, `select`, `loa`,
    both wavefronts, `max_size` and the separable allocators over single or tree arbiters, from the lemmas
    `SelAllocMatches` to `MaxSizeMatches` and, for the arbiters, `SimpleWins` and `TreeWins`: who wins has asked.
    `max_size` is the one whose loops the code does not bound: it augments *while* there is a path, and each path
    *until* it meets an input without an output. `Ranked` says why that ends: the search reaches every output in a
    round of its own, from an input whose output was reached in an earlier round, so that a path of a search
    of `n` rounds has ended after `n` steps (`Released`), and only then do inputs and outputs agree again (`BackOr`).
  * `Spread`: at most `output_speedup` flits in the crossbar are for an output. `GrantsAre` is where it
    comes from: what the allocators of one cycle grant are different outputs, a speculative
    grant yields to what the other allocator asked for or granted, and with a held switch to its holders
    (`BeforeIs`); `CrossbarJoined` puts the two sources of flits together.
  * `Bounded`: `_SWAllocAddReq` asks for an output only if its buffer is not full (`MayAsk`), so that what
    crosses finds room (`UpdateBound`). A buffer that does not run at a speedup never holds more than one
    flit, as one leaves in every cycle, and the bound that is proved is one below the assertion's.
  * `Whole`: packets wait whole at the nodes, behind one of which the first flits are sent; so a flit on its way
    has a VC (`SentFlit`), which makes every index into a router a valid one.

  `UpdateKept` and `QueuedKept` say that one cycle of an `IQRouter` keeps this, step by step as the
  code has them: `QueuedKept` for `_InputQueuing`, `SwitchKept`, `RouteKept`, `VCAllocKept`, `HoldKept` and
  `SWAllocKept` for the updates, `SendingKept` for what leaves. `EventStepKept` is the same for `EventRouter`,
  of which one flit at most crosses to an output. `AdvanceKept` puts the routers into the network. The constants `Flit` and `Route` stand for
  the flits there may be and the routing function; what `FlitAssumption` and `RouteAssumption` ask of
  them TLC evaluates on the ring.
* **`BoardBarrierProofs!BarrierHolds`**: what the abstract barrier `Timesteps` promises
  for any set of boards.
* **`BoardBarrierProofs!BoardsImplementBarrier`**, **`OneParityBit`**: `Spec => ImplementsBarrier`, so that it holds for
  the controllers of any number of boards, which are never more than one timestep apart, any `MaxTimestep` and any `ts_buf`. The controllers count *anonymous*
  ends; the barrier is right because what they count can only be one end of each board. `Inv`
  says so: the ends under way from one board to another are the last it made, without a gap
  (`Contiguous`) and in order (`Queues`), and the receiver has passed none of them (`NotPassed`); a counter is
  the number of boards whose end has been received, and counts ends of the next timestep only
  when those of this one are complete (`Counts`, for the reporter `Reports`); a board is in a timestep only when every board
  has finished the one before (`Gate`). `AxonsFirst` says that the end of a timestep is behind its
  axons in each of the queues between a core and the router.
* **`BoardBarrierProofs!GridlockIsForever`**, **`MissedIsForever`**: what `KeepsGoing` excepts is no passing
  state: `Spec => [](Gridlock => []Gridlock)`, and the same of `Missed`. `StaysFull` is the heart of the first:
  a queue only gets shorter by what `ICController` takes from it, and that of a board of the circle is
  stalled. `Forwarded` says that what it has forwarded is in the FIFOs.
* **`BoardBarrierProofs!NoAxonIsLate`**, **`AxonsEarlyByOne`**, **`CountersNeverOverrun`**,
  **`ReporterIsHonest`**: `NoStraggler`, `EarlyByOneAtMost`, `NoOverrun` and `ReporterHonest` from the same
  invariant.

The prover has no induction over data and no recursive operators. Where a proof needs induction
over a number, `Selection!UpTo` argues about a *set* of numbers and its least element, which the library's
`WFMin` yields without an operator parameter; `Selection!History` gives recursive functions their
defining equations in the same way, among them `Selecting`, the messages of a sequence that belong to
a set (module `Selection`), in which the pathway's wire and the router's order are stated.

## What is only model-checked

* Liveness (`ImplementsLiveChannel`, `NoStarvation`, `LevelSettles`, `PipelineDrains`,
  `AllDelivered`, `KeepsGoing`, `TimestepsGoOn`, `Arrives`, the liveness of
  `ImplementsPacketNetwork`), which the prover does not support under fairness.
* `NoSimError`, `InOwnTimestep`, `NoSkippedTimestep` of a board and `NoCoreError` of the detailed core. They
  rest on how long a whole board takes for what, compared with `ts_buf_`, and fail for other
  parameters (see above); a proof would have to assume the timing it is about.
* BookSim: `LegalRoute`, since its routing functions are walks, trees and tables and as such
  recursive operators. `CreditsMatch` equates a count of free places with flits and credits on
  three channels, and `WholePackets` and the refinement of `PacketNetwork` follow a packet
  from its source through every buffer to its destination: their invariants are sums over the network and
  speak of all routers and channels at once, where `NetworkInv` speaks of one router at a time. They are checked on
  the ring. `Design` is recursive throughout.
* That the matching of `max_size` is a largest one (`MaxSizeIsMaximum`, over all requests of three inputs and
  three outputs); that it is a matching is proved. `pim` draws its grants and is in no theorem: TLC checks that
  all it may return are matchings.
* What `SlotsFor` and `PipeSlots` compute
  is a recursion over numbers: TLC evaluates that they leave room for every latency up
  to 200 and every depth up to 64 (`MAX_PDEPTH`), and the proofs assume no more than
  `Latency <= PropIdxMask` and `PDepth <= OMsgIdxMask`.

## What is not modelled

* The DRAM simulator is a submodule and not part of the repository: its answers are
  any order within a latency.
* BookSim: the chaos router (see above), lookahead and NOQ routing, feedback buffer
  policies, delays above one cycle, batch mode, request-reply traffic, power, area
  and statistics, configuration parsing (generated).
* Options, the specification file, registers and stimulus files: they are read
  before the simulation or are data. Power of registers.
* Statistics (`ecount`, `cclass`, `nprop`) and reports, except `ecount.msgdrop`, which is
  `dropped`.
* The neuron model's arithmetic.
* What nothing instantiates: `SlowCore`, `DynAccUnit`, `SimpleDelta`, `SRAMModule`, `DelayModule`,
  `DelayAxonMgr`, `DelaySRAM`, `OrGate`, `XorGate`; `AxonStorage`, the variant of `PseudoStorage` with a
  memory image; `PCIeSwitch`, `DataSinkModule` and `DataSourceModule`, used by examples only.

## The plan

Written first, because everything else rests on it: `Pathway`, then `TSimModule`; then the
barrier of the boards and the router under it; then the board in fast mode over
`Simulation`; then BookSim, from its routing functions to its routers, the core of the
detailed mode, and the loading of a design. Left, in this order:

1. `IdleTree`: the AND gates over levels with the latencies of their wires: `Idle` at
   `TSManager` is not true while an axon is between two units for longer than `ts_buf_`
   covers. It justifies the assumption at `SendAxon` in `BoardBarrier`.
2. `MuxJunction`: a Mux composed with two pathways; no message dropped by a change of
   the select level.
3. `PairedStreams`: axon and board id over two pathways in lockstep (`PacketConstructor`).
4. `PCIeSwitch`, which an example uses.
