----------------------------- MODULE BoardBarrier -----------------------------
(***************************************************************************)
(* The boards of a NeuroSim system advance their timestep together.  The   *)
(* TSManager of a board decides that the board has finished, counts the    *)
(* end-of-timestep packets (TSEND) of the others and flips the parity of   *)
(* its board when it has counted as many ends as there are boards.  It     *)
(* does not look at who sent them, or for which timestep.  PacketConstruc- *)
(* tor sends the board's axons before its TSEND, PacketDecoder hands the   *)
(* packets that arrive to the propagators and to TSManager, and a reporter *)
(* outside the boards counts timesteps.                                    *)
(*                                                                         *)
(* The interconnect is the specification Channel: what leaves a board is a *)
(* FIFO, and the router puts a packet into the FIFOs of all it is          *)
(* addressed to at once (RouterNetwork, whose order module RouterNetwork   *)
(* checks).  Both FIFOs of a board pass its ICController, which stalls as  *)
(* a whole.  Cores and propagators are the environment.  Packets carry     *)
(* their sender and its timestep for the properties only.                  *)
(***************************************************************************)
EXTENDS Integers, Sequences, FiniteSets

CONSTANTS
  Boards,
  TSBuf,               \* ts_buf_: Operations a board must be finished for (3)
  LinkRoom,            \* packets on the link from a board to the router
  QueueRoom,           \* packets in a queue of the router and on its link
  MaxTS,               \* bound: timesteps
  Senders, MaxAxons    \* bounds: the boards that send axons, how many in a timestep

Reporter == "reporter"

\* A Wire between two modules holds a packet at each end.
WireRoom == 2

\* Mutants of num_boards: a board counts the others only, or the nodes of the
\* router.
num_others == Cardinality(Boards) - 1
num_nodes == Cardinality(Boards) + 1

num_boards == Cardinality(Boards)

ASSUME BoardAssumption ==
  /\ Boards # {} /\ IsFiniteSet(Boards) /\ Reporter \notin Boards
  /\ TSBuf \in Nat /\ LinkRoom \in Nat \ {0} /\ QueueRoom \in Nat \ {0}
  /\ MaxTS \in Nat /\ Senders \subseteq Boards /\ MaxAxons \in Nat

VARIABLES
  started,             \* the timestep the cores of a board started last
  dynfin,              \* the level DynFin at TSManager
  idle,                \* the level Idle: the propagators have nothing to do
  axons,               \* axons the board sent in this timestep
  axonq,               \* the queue of axons in front of PacketConstructor
  tsendq,              \* the wire board_tsend: its RHS, then its LHS
  remote,              \* the wire remote_tsend: signals on it
  is_start, is_end, end_counter, ts_buf, cur_timestep,
  pending, chan,       \* the interconnect: FIFOs from and to the boards
  sent, received,      \* packets of both that ICController has forwarded
  rep_counter, rep_timestep

board == <<started, dynfin, idle, axons>>
tsm == <<is_start, is_end, end_counter, ts_buf, cur_timestep>>
net == <<pending, chan, sent, received>>
rep == <<rep_counter, rep_timestep>>
vars == <<board, axonq, tsendq, remote, tsm, net, rep>>

Packets ==
  [type : {"TSEND"}, src : Boards, round : 0..MaxTS]
    \union [type : {"AXON"}, src : Boards, dst : Boards, round : 0..MaxTS]

\* A broadcast (board id -1) goes to every node of the router but its source.
PacketDests(p) ==
  IF p.type = "TSEND" THEN (Boards \union {Reporter}) \ {p.src} ELSE {p.dst}

Net == INSTANCE Channel WITH
         Sources <- Boards, Sinks <- Boards \union {Reporter}, Msgs <- Packets,
         Dests <- PacketDests,
         SrcRoom <- [b \in Boards |-> WireRoom + LinkRoom],
         SinkRoom <- [d \in Boards \union {Reporter} |-> QueueRoom + WireRoom]

Init ==
  /\ started = [b \in Boards |-> 0]
  /\ dynfin = [b \in Boards |-> TRUE] /\ idle = [b \in Boards |-> TRUE]
  /\ axons = [b \in Boards |-> 0]
  /\ axonq = [b \in Boards |-> <<>>] /\ tsendq = [b \in Boards |-> <<>>]
  /\ remote = [b \in Boards |-> 0]
  /\ is_start = [b \in Boards |-> TRUE] /\ is_end = [b \in Boards |-> FALSE]
  /\ end_counter = [b \in Boards |-> 0] /\ ts_buf = [b \in Boards |-> TSBuf]
  /\ cur_timestep = [b \in Boards |-> 0]
  /\ Net!Init
  /\ sent = [b \in Boards |-> 0] /\ received = [b \in Boards |-> 0]
  /\ rep_counter = 0 /\ rep_timestep = 0

\* TSManager is stalled while board_tsend holds a second end: its LHS has no
\* queue and its RHS room for one.
Stalled(b) == Len(tsendq[b]) >= 2

-----------------------------------------------------------------------------
(* The environment: cores and propagators of a board *)

\* The parity flip reaches the cores.
CoreStart(b) ==
  /\ started[b] < cur_timestep[b] /\ cur_timestep[b] < MaxTS /\ dynfin[b]
  /\ started' = [started EXCEPT ![b] = cur_timestep[b]]
  /\ dynfin' = [dynfin EXCEPT ![b] = FALSE]
  /\ UNCHANGED <<idle, axons, axonq, tsendq, remote, tsm, net, rep>>

\* The new level replaces the old one, whether TSManager has seen it or not.
CoreFinish(b) ==
  /\ ~dynfin[b]
  /\ dynfin' = [dynfin EXCEPT ![b] = TRUE]
  /\ UNCHANGED <<started, idle, axons, axonq, tsendq, remote, tsm, net, rep>>

\* A neuron fires.  Assumption: its axon is in the queue before TSManager has
\* seen the board finished for ts_buf_ Operations.
SendAxon(b, d) ==
  /\ b \in Senders /\ is_start[b] /\ ~is_end[b] /\ axons[b] < MaxAxons /\ d # b
  /\ axons' = [axons EXCEPT ![b] = @ + 1]
  /\ axonq' = [axonq EXCEPT ![b] =
                 Append(@, [type |-> "AXON", src |-> b, dst |-> d,
                            round |-> cur_timestep[b]])]
  /\ UNCHANGED <<started, dynfin, idle, tsendq, remote, tsm, net, rep>>

PropagatorDone(b) ==
  /\ ~idle[b]
  /\ idle' = [idle EXCEPT ![b] = TRUE]
  /\ UNCHANGED <<started, dynfin, axons, axonq, tsendq, remote, tsm, net, rep>>

-----------------------------------------------------------------------------
(* The controller of a board *)

\* The levels DynFin and Idle are shown to every call of Operation, so
\* is_finish is their conjunction.
is_finish(b) == dynfin[b] /\ idle[b]

\* Mutant of Finishing: the board may announce its end again.
FinishingAgain(b) == is_finish(b) /\ is_start[b]

Finishing(b) == is_finish(b) /\ is_start[b] /\ ~is_end[b]

Ending(b) == Finishing(b) /\ ts_buf[b] = 0

Starts(b) == is_start[b] \/ ~dynfin[b]

\* A remote end is used if there is one.
Got(b) == IF remote[b] > 0 THEN 1 ELSE 0

Counted(b) == end_counter[b] + Got(b) + IF Ending(b) THEN 1 ELSE 0

\* Mutant of Flips: any end is taken for the last.
FlipsAtOnce(b) == Counted(b) > 0 /\ Starts(b)

Flips(b) == Counted(b) = num_boards /\ Starts(b)

\* TSManager::Operation.
TSManager(b) ==
  /\ ~Stalled(b)
  /\ remote' = [remote EXCEPT ![b] = @ - Got(b)]
  /\ ts_buf' = [ts_buf EXCEPT ![b] = IF ~Finishing(b) THEN @
                                     ELSE IF @ = 0 THEN TSBuf ELSE @ - 1]
  /\ tsendq' = IF Ending(b) THEN [tsendq EXCEPT ![b] = Append(@, cur_timestep[b])]
                            ELSE tsendq
  /\ end_counter' = [end_counter EXCEPT ![b] = IF Flips(b) THEN 0 ELSE Counted(b)]
  /\ is_start' = [is_start EXCEPT ![b] = Starts(b) /\ ~Flips(b)]
  /\ is_end' = [is_end EXCEPT ![b] = (@ \/ Ending(b)) /\ ~Flips(b)]
  /\ cur_timestep' = [cur_timestep EXCEPT ![b] = IF Flips(b) THEN @ + 1 ELSE @]
  /\ axons' = [axons EXCEPT ![b] = IF Flips(b) THEN 0 ELSE @]
  /\ UNCHANGED <<started, dynfin, idle, axonq, net, rep>>

\* Mutant of PacketConstructor: an end is sent before the axons that wait.
PacketConstructorEndFirst(b) ==
  /\ Len(pending[b]) - sent[b] < WireRoom
  /\ \/ /\ tsendq[b] = <<>> /\ axonq[b] # <<>>
        /\ Net!Put(b, Head(axonq[b]))
        /\ axonq' = [axonq EXCEPT ![b] = Tail(@)]
        /\ UNCHANGED tsendq
     \/ /\ tsendq[b] # <<>>
        /\ Net!Put(b, [type |-> "TSEND", src |-> b, round |-> Head(tsendq[b])])
        /\ tsendq' = [tsendq EXCEPT ![b] = Tail(@)]
        /\ UNCHANGED axonq
  /\ UNCHANGED <<board, remote, tsm, sent, received, rep>>

\* PacketConstructor::Operation: an axon, if there is one, before an end, while
\* wire pkt_send has room.
PacketConstructor(b) ==
  /\ Len(pending[b]) - sent[b] < WireRoom
  /\ \/ /\ axonq[b] # <<>>
        /\ Net!Put(b, Head(axonq[b]))
        /\ axonq' = [axonq EXCEPT ![b] = Tail(@)]
        /\ UNCHANGED tsendq
     \/ /\ axonq[b] = <<>> /\ tsendq[b] # <<>>
        /\ Net!Put(b, [type |-> "TSEND", src |-> b, round |-> Head(tsendq[b])])
        /\ tsendq' = [tsendq EXCEPT ![b] = Tail(@)]
        /\ UNCHANGED axonq
  /\ UNCHANGED <<board, remote, tsm, sent, received, rep>>

\* Module::PreClock stalls a module if any of its outputs has no room:
\* ICController, if the link to the router or wire pkt_recv is full.
ICStalled(b) == sent[b] >= LinkRoom \/ received[b] >= WireRoom

\* ICController::Operation forwards a packet in each direction: out if
\* pkt_send has one, in if one has come over the link.
ICController(b, rx) ==
  /\ ~ICStalled(b)
  /\ rx => received[b] < Len(chan[b])
  /\ LET tx == sent[b] < Len(pending[b])
     IN /\ tx \/ rx
        /\ sent' = [sent EXCEPT ![b] = IF tx THEN @ + 1 ELSE @]
        /\ received' = [received EXCEPT ![b] = IF rx THEN @ + 1 ELSE @]
  /\ UNCHANGED <<board, axonq, tsendq, remote, tsm, pending, chan, rep>>

\* The router's queue for d, and its link, are full.
QueueFull(d) ==
  Len(chan[d]) - (IF d = Reporter THEN 0 ELSE received[d]) >= QueueRoom

\* RouterNetwork::Operation takes a broadcast if no queue is full, not even
\* that of its source, which does not get it.
RoomNeeded(p) == IF p.type = "TSEND" THEN Boards \union {Reporter} ELSE {p.dst}

Route(b) ==
  /\ sent[b] > 0
  /\ \A d \in RoomNeeded(Head(pending[b])) : ~QueueFull(d)
  /\ Net!Send(b)
  /\ sent' = [sent EXCEPT ![b] = @ - 1]
  /\ UNCHANGED <<board, axonq, tsendq, remote, tsm, received, rep>>

\* PacketDecoder::Operation: an end goes to TSManager, an axon to a
\* propagator, which is busy from then on.  It stalls while wire remote_tsend
\* has no room.
PacketDecoder(b) ==
  /\ received[b] > 0 /\ remote[b] < WireRoom
  /\ Net!Take(b)
  /\ received' = [received EXCEPT ![b] = @ - 1]
  /\ LET p == Head(chan[b])
     IN \/ /\ p.type = "TSEND"
           /\ remote' = [remote EXCEPT ![b] = @ + 1]
           /\ UNCHANGED idle
        \/ /\ p.type = "AXON"
           /\ idle' = [idle EXCEPT ![b] = FALSE]
           /\ UNCHANGED remote
  /\ UNCHANGED <<started, dynfin, axons, axonq, tsendq, tsm, sent, rep>>

\* TimestepReporter::Operation.
TimestepReporter ==
  /\ Net!Take(Reporter)
  /\ LET ends == rep_counter + (IF Head(chan[Reporter]).type = "TSEND" THEN 1 ELSE 0)
     IN /\ rep_counter' = IF ends = num_boards THEN 0 ELSE ends
        /\ rep_timestep' = IF ends = num_boards THEN rep_timestep + 1 ELSE rep_timestep
  /\ UNCHANGED <<board, axonq, tsendq, remote, tsm, sent, received>>

Next ==
  \/ \E b \in Boards :
       \/ CoreStart(b) \/ CoreFinish(b) \/ PropagatorDone(b)
       \/ \E d \in Boards : SendAxon(b, d)
       \/ TSManager(b) \/ PacketConstructor(b) \/ PacketDecoder(b)
       \/ Route(b) \/ \E rx \in BOOLEAN : ICController(b, rx)
  \/ TimestepReporter

Spec == Init /\ [][Next]_vars

\* Every module is called in every cycle; the dynamics of a timestep end, and
\* a propagator gets through its axons.
Fairness ==
  /\ \A b \in Boards :
       /\ WF_vars(CoreStart(b)) /\ WF_vars(CoreFinish(b)) /\ WF_vars(PropagatorDone(b))
       /\ WF_vars(TSManager(b)) /\ WF_vars(PacketConstructor(b)) /\ WF_vars(PacketDecoder(b))
       /\ WF_vars(\E rx \in BOOLEAN : ICController(b, rx))
  /\ WF_vars(TimestepReporter)

FairSpec == Spec /\ Fairness
-----------------------------------------------------------------------------
\* Counting ends without their sender or timestep is a barrier: the counters
\* of TSManager implement Timesteps.
done == [b \in Boards |-> cur_timestep[b] + IF is_end[b] THEN 1 ELSE 0]
Steps == INSTANCE Timesteps WITH step <- cur_timestep
ImplementsBarrier == Steps!Spec

\* The packets under way to a board, wherever they are.
InTransit(d) ==
  LET under(q) == {q[i] : i \in DOMAIN q}
  IN under(chan[d]) \union UNION {{p \in under(axonq[b]) \union under(pending[b]) :
                                     d \in PacketDests(p)} : b \in Boards}

\* A board does not leave a timestep while an axon of it is under way to it:
\* axons are sent before the end of their timestep and never overtaken by one.
NoStraggler == \A d \in Boards : \A p \in InTransit(d) :
                 p.type = "AXON" => p.round >= cur_timestep[d]

\* An axon may arrive before its timestep: an end that waits in front of a
\* busy PacketConstructor is overtaken by the axons of the next timestep.  It
\* is never early by more than one, so one parity bit still tells its step.
EarlyByOneAtMost == \A d \in Boards : \A p \in InTransit(d) :
                      p.type = "AXON" => p.round <= cur_timestep[d] + 1

\* The counters do not overrun the equality the code tests for.
NoOverrun == \A b \in Boards : end_counter[b] + remote[b] <= 2 * num_boards - 1
                /\ (~is_end[b] => end_counter[b] < num_boards)

\* The reporter counts a timestep only when every board has finished it.
ReporterHonest == \A b \in Boards : rep_timestep <= done[b]

\* The interconnect delivers what it can: the router takes a packet that its
\* queues have room for, and the packet arrives.
Delivers ==
  \A b \in Boards : WF_vars(Route(b)) /\ WF_vars(ICController(b, TRUE))

\* The dynamics of a timestep were over before TSManager saw that they run.
Missed(b) ==
  cur_timestep[b] > 0 /\ started[b] = cur_timestep[b] /\ dynfin[b] /\ ~is_start[b]

\* The boards of a set wait for each other: the link of each is full, so that
\* its ICController takes nothing, and what is first on it waits for room in
\* the queue of one of them.
Gridlock ==
  \E B \in SUBSET Boards \ {{}} : \A b \in B :
    sent[b] >= LinkRoom /\ \E d \in B \intersect RoomNeeded(Head(pending[b])) : QueueFull(d)

\* The boards wait for each other for ever only in two ways: links and queues
\* are full all around, or the level DynFin was missed.
KeepsGoing ==
  Delivers => <>(\/ rep_timestep >= MaxTS /\ \A b \in Boards : cur_timestep[b] >= MaxTS
                 \/ Gridlock \/ \E b \in Boards : Missed(b))
=============================================================================
