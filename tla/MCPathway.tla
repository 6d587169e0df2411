------------------------------ MODULE MCPathway ------------------------------
(***************************************************************************)
(* Small instances of Pathway: one or two units at each end, queues of one *)
(* to three messages, wires of zero to two cycles.                         *)
(***************************************************************************)
EXTENDS Pathway, TLC

CONSTANTS m1, m2, m3

\* The ring SetConnectionAttr allocates for the configured latency.
RingMask == SlotsFor[Latency] - 1

\* SetConnectionAttr gives every latency a power of two with a slot to spare.
ASSUME RingAssumption ==
  \A lat \in 0..200 :
    SlotsFor[lat] > lat /\ \E k \in 0..8 : SlotsFor[lat] = 2^k

\* Fan-out to two queues and to a device behind a Mux: m1 is addressed to a
\* queue, m2 to the device, m3 is broadcast.
FanoutLHSCap == 0 :> 2
FanoutRHSCap == 0 :> 2 @@ 1 :> 0 @@ 2 :> 3
FanoutSrc == [m \in {m1, m2, m3} |-> 0]
FanoutDest == m1 :> 0 @@ m2 :> 1 @@ m3 :> Broadcast

\* Fan-in: a queueing LHS and one without a queue.
FaninLHSCap == 0 :> 2 @@ 1 :> 0
FaninRHSCap == 0 :> 4
FaninSrc == m1 :> 0 @@ m2 :> 0 @@ m3 :> 1
FaninDest == [m \in {m1, m2, m3} |-> Broadcast]

\* A fan-out wire with more right-hand sides than the mask has bits.
WideRHSCap == [r \in RHS |-> 1]
WideSrc == [m \in {m1, m2} |-> 0]
WideDest == m1 :> 0 @@ m2 :> 32
=============================================================================
