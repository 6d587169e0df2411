---------------------------- MODULE PacketNetwork ----------------------------
(***************************************************************************)
(* What the router between the boards (RouterNetwork) relies on: packets   *)
(* that were handed to BookSim arrive at their destination, once, in any   *)
(* order, at most MaxArrivals of them at a node in a cycle of BookSim      *)
(* (RouterNetwork::Operation goes through eight of them).                  *)
(***************************************************************************)
EXTENDS FiniteSets, Integers

CONSTANTS Packets, DestOf, MaxArrivals

VARIABLES under_way, arrived

Init == under_way = {} /\ arrived = {}

Generate(p) ==
  /\ p \notin under_way \union arrived
  /\ under_way' = under_way \union {p}
  /\ UNCHANGED arrived

Advance(D) ==
  /\ \A p \in D : Cardinality({q \in D : DestOf[q] = DestOf[p]}) <= MaxArrivals
  /\ under_way' = under_way \ D
  /\ arrived' = arrived \union D

Next == (\E p \in Packets : Generate(p)) \/ (\E D \in SUBSET under_way : Advance(D))

AllArrive == \A p \in Packets : p \in under_way ~> p \in arrived

Spec == Init /\ [][Next]_<<under_way, arrived>> /\ AllArrive
=============================================================================
