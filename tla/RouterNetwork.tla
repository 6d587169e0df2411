---------------------------- MODULE RouterNetwork ----------------------------
(***************************************************************************)
(* The router between the boards (lib/tsim/src/Module/RouterNetwork.cpp).  *)
(* Operation admits at most one message from every receive port, if the    *)
(* transmit queue it is meant for can take everything that is already on   *)
(* its way there, and hands a packet per destination to the network        *)
(* simulator BookSim.  When BookSim reports an arrival at a destination,   *)
(* the router takes the oldest message meant for it, whichever packet it   *)
(* was that arrived, and Operation sends one message per port on.          *)
(*                                                                         *)
(* BookSim is external: packets are routed over two subnets at random and  *)
(* arrive in any order.  A cycle is PreClock, which assigns the output of  *)
(* the previous Operation to the transmit queues, and PostClock, which     *)
(* calls Operation; nothing else touches the queues in between.            *)
(***************************************************************************)
EXTENDS Selection, FiniteSets

CONSTANTS
  netsize,
  Capacity,            \* capacity of the transmit queues
  RxCapacity,          \* capacity of the receive queues
  Msgs, Src, Dst,      \* messages, their source, their DST_ID0
  MaxArrivals          \* packets for a node that can arrive in one Operation,
                       \* which advances BookSim by eight of its cycles

Broadcast == -1
NoMsg == "no message"
Nodes == 0..(netsize - 1)

ASSUME NetworkAssumption ==
  /\ netsize \in Nat \ {0} /\ Capacity \in Nat \ {0} /\ RxCapacity \in Nat \ {0}
  /\ Src \in [Msgs -> Nodes] /\ Dst \in [Msgs -> Nodes \union {Broadcast}]
  /\ MaxArrivals \in Nat \ {0} /\ NoMsg \notin Msgs

VARIABLES
  rx,                  \* msgque of the RHS endpoints of the receive ports
  msgqueue,            \* admitted, on their way through BookSim
  arrived_msg_queue, msg_arrived,
  outmsgs,             \* what the last Operation wrote
  tx,                  \* msgque of the LHS endpoints of the transmit ports
  injected,            \* messages the links have delivered (each comes once)
  log,                 \* admitted messages, in the order of admission
  delivered            \* what has left through a transmit port

vars == <<rx, msgqueue, arrived_msg_queue, msg_arrived, outmsgs, tx, injected,
          log, delivered>>

Dests(m) == IF Dst[m] = Broadcast THEN Nodes \ {Src[m]} ELSE {Dst[m]}

Written(m) == IF m = NoMsg THEN <<>> ELSE <<m>>

\* PreClock of the module: stalled if a transmit queue is full.
Stalled == \E x \in Nodes : Len(tx[x]) >= Capacity

Assigned(x) == tx[x] \o Written(outmsgs[x])

-----------------------------------------------------------------------------
(* Admission *)

\* Mutants of flight_msg: messages that have arrived and wait are forgotten;
\* the output is counted once for every stage it goes through.
flight_msg_departed(x) == Len(msgqueue[x]) + Len(Assigned(x)) + 1
flight_msg_staged(x) ==
  Len(msgqueue[x]) + Len(arrived_msg_queue[x]) + Len(Assigned(x)) + 3

\* Messages on their way to a port, and one more for the message Operation
\* is about to write.
flight_msg(x) ==
  Len(msgqueue[x]) + Len(arrived_msg_queue[x]) + Len(Assigned(x)) + 1

MinOf(f) == f[CHOOSE x \in Nodes : \A y \in Nodes : f[x] <= f[y]]

Minimum(a, b) == IF a < b THEN a ELSE b

\* The turn of receive port x in the loop.  A message is admitted if the
\* transmit queues it is meant for have room: it joins msgqueue of every
\* destination.  A broadcast counts against every other port and, once,
\* against the minimum.
Admit(before, x) ==
  LET m == Head(rx[x])
      fits == IF Dst[m] = Broadcast THEN before.min > 0 ELSE before.remain[Dst[m]] > 0
      remain == [y \in Nodes |-> before.remain[y] - IF y \in Dests(m) THEN 1 ELSE 0]
  IN IF rx[x] = <<>> \/ ~fits THEN before
     ELSE [remain |-> remain,
           min |-> IF Dst[m] = Broadcast THEN before.min - 1
                   ELSE Minimum(before.min, remain[Dst[m]]),
           ports |-> before.ports \union {x},
           sent |-> [y \in Nodes |-> IF y \in Dests(m) THEN Append(before.sent[y], m)
                                    ELSE before.sent[y]],
           log |-> Append(before.log, m)]

\* The room left, the ports whose message has been admitted, msgqueue and the
\* log after the loop has gone through the ports below x.
admission[x \in 0..netsize] ==
  IF x = 0
  THEN LET remain == [y \in Nodes |-> Capacity - flight_msg(y)]
       IN [remain |-> remain, min |-> MinOf(remain), ports |-> {}, sent |-> msgqueue,
           log |-> log]
  ELSE Admit(admission[x - 1], x - 1)

\* Mutant of PacketArrivals: the message of the packet that arrived is looked
\* up, and of two packets the younger one was faster.
PacketArrivalsById(q, n) == IF n = 2 THEN <<q[2], q[1]>> ELSE SubSeq(q, 1, n)

\* PacketArrivalCallback, n times: it takes the oldest message of msgqueue.
PacketArrivals(q, n) == SubSeq(q, 1, n)

-----------------------------------------------------------------------------
Init ==
  /\ rx = [x \in Nodes |-> <<>>]
  /\ msgqueue = [x \in Nodes |-> <<>>]
  /\ arrived_msg_queue = [x \in Nodes |-> <<>>]
  /\ msg_arrived \in BOOLEAN            \* the constructor does not set it
  /\ outmsgs = [x \in Nodes |-> NoMsg]
  /\ tx = [x \in Nodes |-> <<>>]
  /\ injected = {}
  /\ log = <<>> /\ delivered = [x \in Nodes |-> <<>>]

\* One call of Operation, in which n[x] packets arrive at node x.  BookSim
\* only advances if a message was on its way when the call began.
Cycle ==
  /\ ~Stalled
  /\ UNCHANGED <<injected, delivered>>
  /\ msg_arrived' = FALSE
  /\ tx' = [x \in Nodes |-> Assigned(x)]
  /\ LET admitted == admission[netsize]
         sent == admitted.sent
         advances == \E x \in Nodes : msgqueue[x] # <<>>
         most(x) == IF advances THEN Minimum(MaxArrivals, Len(sent[x])) ELSE 0
     IN /\ log' = admitted.log
        /\ rx' = [x \in Nodes |-> IF x \in admitted.ports THEN Tail(rx[x]) ELSE rx[x]]
        /\ \E n \in [Nodes -> 0..MaxArrivals] :
             LET arrived == [x \in Nodes |-> arrived_msg_queue[x] \o PacketArrivals(sent[x], n[x])]
                 leaves(x) == /\ msg_arrived \/ \E y \in Nodes : n[y] > 0
                              /\ arrived[x] # <<>>
             IN /\ \A x \in Nodes : n[x] <= most(x)
                /\ msgqueue' = [x \in Nodes |-> SubSeq(sent[x], n[x] + 1, Len(sent[x]))]
                /\ arrived_msg_queue' =
                     [x \in Nodes |-> IF leaves(x) THEN Tail(arrived[x]) ELSE arrived[x]]
                /\ outmsgs' = [x \in Nodes |-> IF leaves(x) THEN Head(arrived[x]) ELSE NoMsg]

\* The link of a node delivers a message.
Inject(m) ==
  /\ m \notin injected
  /\ Len(rx[Src[m]]) < RxCapacity
  /\ rx' = [rx EXCEPT ![Src[m]] = Append(@, m)]
  /\ injected' = injected \union {m}
  /\ UNCHANGED <<msgqueue, arrived_msg_queue, msg_arrived, outmsgs, tx, log, delivered>>

\* The link of a node takes a message.
Transmit(x) ==
  /\ tx[x] # <<>>
  /\ tx' = [tx EXCEPT ![x] = Tail(@)]
  /\ delivered' = [delivered EXCEPT ![x] = Append(@, Head(tx[x]))]
  /\ UNCHANGED <<rx, msgqueue, arrived_msg_queue, msg_arrived, outmsgs, injected, log>>

Next ==
  \/ Cycle
  \/ \E m \in Msgs : Inject(m)
  \/ \E x \in Nodes : Transmit(x)

Spec == Init /\ [][Next]_vars

\* Operation is called in every cycle, the links keep moving, and BookSim
\* delivers every packet in the end.
Fairness ==
  /\ WF_vars(Cycle)
  /\ \A x \in Nodes : WF_vars(Transmit(x)) /\ []<>(msgqueue[x] = <<>>)

FairSpec == Spec /\ Fairness
-----------------------------------------------------------------------------
OnTheWay(x) == tx[x] \o Written(outmsgs[x]) \o arrived_msg_queue[x] \o msgqueue[x]

\* Admission keeps room in the transmit queue for everything under way, so
\* the error "router output queue exploded" is dead and the router is never
\* stalled by one slow port.
QueueNeverExplodes == \A x \in Nodes : Len(OnTheWay(x)) < Capacity

\* Every node gets the messages addressed to it once and in one order that is
\* the same for all nodes, even though packets overtake each other: the
\* barrier of the boards relies on it.
TotalOrder ==
  \A x \in Nodes :
    delivered[x] \o OnTheWay(x) = Selected(log, {m \in Msgs : x \in Dests(m)})

InSeq(m, s) == \E i \in DOMAIN s : s[i] = m

\* No two packets reached a node in one Operation: nothing is left behind.
NoBacklog == \A x \in Nodes : arrived_msg_queue[x] = <<>>

\* Every message that reaches the router gets to every node it is addressed
\* to, as long as the packets of a node arrive one at a time: a message left
\* behind waits until the next packet arrives somewhere.
AllDelivered ==
  []NoBacklog => []<>(\A m \in injected : \A x \in Dests(m) : InSeq(m, delivered[x]))
=============================================================================
