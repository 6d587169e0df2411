-------------------------- MODULE BoardBarrierProofs --------------------------
(***************************************************************************)
(* Counting ends of timesteps without their sender or their timestep is a  *)
(* barrier, for any number of boards, any room in the network and any      *)
(* axons.  The counter of a board says how many boards' ends have come to  *)
(* it: as many as are in Received(d, n), the boards whose end of timestep  *)
(* n is no longer under way to d.  The argument has two layers.  Below,    *)
(* the queues: the ends of a board stay in order, and the ends in a queue  *)
(* of the router are ordered by timestep whoever sent them, because the    *)
(* router puts an end into all queues at once.  Above, the counting: a     *)
(* board receives an end of the next timestep only after all ends of its   *)
(* own, so that a full count means that every board has finished.  Last,   *)
(* the two ways in which the boards can stop are shown to be for ever.     *)
(***************************************************************************)
EXTENDS BoardBarrier, FiniteSetTheorems, TLAPS

Sinks == Boards \union {Reporter}

Ends == [type : {"TSEND"}, src : Boards, round : Nat]
Axons == [type : {"AXON"}, src : Boards, dst : Boards, round : Nat]
Pkts == Ends \union Axons

\* The rounds of b's ends in a queue of packets.
EndsOf(q, b) ==
  {q[i].round : i \in {j \in 1..Len(q) : q[j].type = "TSEND" /\ q[j].src = b}}

\* The rounds of b's ends that the router has not taken yet, and of those
\* that are under way to d.
Waiting(b) == EndsOf(pending[b], b) \union {tsendq[b][i] : i \in 1..Len(tsendq[b])}
Under(d, b) == IF d = b THEN {} ELSE EndsOf(chan[d], b) \union Waiting(b)

\* The boards whose end of timestep n has come to d.
Received(d, n) == {b \in Boards : done[b] > n /\ \A r \in Under(d, b) : r > n}

-----------------------------------------------------------------------------
(* The inductive invariant *)

Typed ==
  /\ dynfin \in [Boards -> BOOLEAN] /\ idle \in [Boards -> BOOLEAN]
  /\ is_start \in [Boards -> BOOLEAN] /\ is_end \in [Boards -> BOOLEAN]
  /\ end_counter \in [Boards -> Nat] /\ remote \in [Boards -> Nat]
  /\ cur_timestep \in [Boards -> Nat]
  /\ axonq \in [Boards -> Seq(Axons)] /\ tsendq \in [Boards -> Seq(Nat)]
  /\ pending \in [Boards -> Seq(Pkts)]
  /\ chan \in [Sinks -> Seq(Pkts)]
  /\ rep_counter \in Nat /\ rep_timestep \in Nat

\* Packets are where they belong.
Addressed ==
  /\ \A b \in Boards :
       /\ \A i \in 1..Len(axonq[b]) : axonq[b][i].src = b /\ axonq[b][i].dst # b
       /\ \A i \in 1..Len(pending[b]) :
            /\ pending[b][i].src = b
            /\ pending[b][i].type = "AXON" => pending[b][i].dst # b
  /\ \A d \in Sinks : \A i \in 1..Len(chan[d]) :
       /\ chan[d][i].src # d
       /\ chan[d][i].type = "AXON" => chan[d][i].dst = d

\* A board's ends leave in the order of their timesteps.
Increasing ==
  \A b \in Boards :
    /\ \A i, j \in 1..Len(tsendq[b]) : i < j => tsendq[b][i] < tsendq[b][j]
    /\ \A i, j \in 1..Len(pending[b]) :
         pending[b][i].type = "TSEND" /\ pending[b][j].type = "TSEND" /\ i < j
           => pending[b][i].round < pending[b][j].round
    /\ \A i \in 1..Len(tsendq[b]) : \A r \in EndsOf(pending[b], b) : r < tsendq[b][i]
    /\ \A d \in Sinks \ {b} : \A r \in EndsOf(chan[d], b) : \A s \in Waiting(b) : r < s

\* The ends in a queue of the router are ordered by their timesteps.
Sorted ==
  \A d \in Sinks : \A i, j \in 1..Len(chan[d]) :
    chan[d][i].type = "TSEND" /\ chan[d][j].type = "TSEND" /\ i < j
      => /\ chan[d][i].round <= chan[d][j].round
         /\ chan[d][i].src = chan[d][j].src => chan[d][i].round < chan[d][j].round

\* The ends under way from b to d are the last ones b made, without a gap.
Contiguous ==
  \A d \in Sinks, b \in Boards : \A r \in Under(d, b) :
    /\ r < done[b]
    /\ \A s \in r..(done[b] - 1) : s \in Under(d, b)

\* No board and no reporter has passed an end that is under way to it.
NotPassed ==
  /\ \A d \in Boards, b \in Boards : \A r \in Under(d, b) : cur_timestep[d] <= r
  /\ \A b \in Boards : \A r \in Under(Reporter, b) : rep_timestep <= r

\* No board is in a timestep before every board has finished the one before.
Gate == \A b, c \in Boards : cur_timestep[b] <= done[c]

\* What the counters mean.
Counts ==
  \A d \in Boards :
    /\ end_counter[d] + remote[d]
         = Cardinality(Received(d, cur_timestep[d]))
           + Cardinality(Received(d, cur_timestep[d] + 1))
    /\ Received(d, cur_timestep[d] + 1) # {} => Received(d, cur_timestep[d]) = Boards

\* What the counter of the reporter means; it never waits with a full count.
Reports ==
  /\ rep_counter = Cardinality(Received(Reporter, rep_timestep))
  /\ Received(Reporter, rep_timestep) # Boards
  /\ Received(Reporter, rep_timestep + 1) = {}
  /\ \A b \in Boards : rep_timestep <= done[b]

\* The end of a timestep that a board has finished is still behind the axons
\* of that timestep: in front of PacketConstructor, on the link of the board
\* and in the queues of the router.
ToAnnounce(b, r) == \E k \in 1..Len(tsendq[b]) : tsendq[b][k] = r

EndBehind(q, i, b, r) ==
  \E j \in (i + 1)..Len(q) : q[j].type = "TSEND" /\ q[j].src = b /\ q[j].round = r

AxonsFirst ==
  \A b \in Boards :
    /\ \A i \in 1..Len(axonq[b]) :
         /\ axonq[b][i].round <= cur_timestep[b]
         /\ axonq[b][i].round < done[b] => ToAnnounce(b, axonq[b][i].round)
    /\ \A i \in 1..Len(pending[b]) : pending[b][i].type = "AXON" =>
         /\ pending[b][i].round <= cur_timestep[b]
         /\ pending[b][i].round < done[b] =>
              \/ ToAnnounce(b, pending[b][i].round)
              \/ EndBehind(pending[b], i, b, pending[b][i].round)
    /\ \A d \in Boards : \A i \in 1..Len(chan[d]) :
         chan[d][i].type = "AXON" /\ chan[d][i].src = b =>
           /\ chan[d][i].round <= cur_timestep[b]
           /\ chan[d][i].round < done[b] =>
                \/ chan[d][i].round \in Waiting(b)
                \/ EndBehind(chan[d], i, b, chan[d][i].round)

Queues == Typed /\ Addressed /\ Increasing /\ Sorted

Inv == Queues /\ Contiguous /\ NotPassed /\ Gate /\ Counts /\ Reports /\ AxonsFirst

-----------------------------------------------------------------------------
(* Ends in a queue *)

LEMMA EndsOfAppend ==
  ASSUME NEW q \in Seq(Pkts), NEW p \in Pkts, NEW b
  PROVE  EndsOf(Append(q, p), b)
           = EndsOf(q, b) \union (IF p.type = "TSEND" /\ p.src = b THEN {p.round} ELSE {})
<1> DEFINE a == Append(q, p)
<1>1. /\ Len(a) = Len(q) + 1 /\ Len(q) \in Nat /\ a[Len(q) + 1] = p
      /\ \A i \in 1..Len(q) : a[i] = q[i]
  OBVIOUS
<1>2. \A i : i \in 1..Len(a) <=> i \in 1..Len(q) \/ i = Len(q) + 1
  BY <1>1
<1> HIDE DEF a
<1>3. QED
  BY <1>1, <1>2 DEF EndsOf, a

LEMMA EndsOfType ==
  ASSUME NEW q \in Seq(Pkts), NEW b
  PROVE  EndsOf(q, b) \subseteq Nat
<1>1. SUFFICES ASSUME NEW i \in 1..Len(q), q[i].type = "TSEND"
               PROVE  q[i].round \in Nat
  BY DEF EndsOf
<1>2. q[i] \in Pkts
  OBVIOUS
<1>3. QED
  BY <1>2 DEF Pkts, Ends, Axons

LEMMA EndsOfTail ==
  ASSUME NEW q \in Seq(Pkts), q # <<>>, NEW b
  PROVE  EndsOf(q, b)
           = EndsOf(Tail(q), b)
             \union (IF Head(q).type = "TSEND" /\ Head(q).src = b THEN {Head(q).round} ELSE {})
<1>1. /\ Len(q) \in Nat \ {0} /\ Len(Tail(q)) = Len(q) - 1 /\ Head(q) = q[1]
      /\ \A i \in 1..Len(Tail(q)) : Tail(q)[i] = q[i + 1]
  OBVIOUS
<1>2. \A i : i \in 1..Len(q) <=> i = 1 \/ (i - 1 \in 1..Len(Tail(q)) /\ i \in Int)
  BY <1>1
<1>3. ASSUME NEW r \in EndsOf(q, b)
      PROVE  \/ r \in EndsOf(Tail(q), b)
             \/ Head(q).type = "TSEND" /\ Head(q).src = b /\ r = Head(q).round
  <2>1. PICK i \in 1..Len(q) : q[i].type = "TSEND" /\ q[i].src = b /\ q[i].round = r
    BY DEF EndsOf
  <2>2. CASE i = 1
    BY <1>1, <2>1, <2>2
  <2>3. CASE i # 1
    <3>1. i - 1 \in 1..Len(Tail(q)) /\ Tail(q)[i - 1] = q[i]
      BY <1>1, <2>1, <2>3
    <3>2. QED
      BY <2>1, <3>1 DEF EndsOf
  <2>4. QED
    BY <2>2, <2>3
<1>4. ASSUME NEW r \in EndsOf(Tail(q), b) PROVE r \in EndsOf(q, b)
  <2>1. PICK i \in 1..Len(Tail(q)) :
          Tail(q)[i].type = "TSEND" /\ Tail(q)[i].src = b /\ Tail(q)[i].round = r
    BY DEF EndsOf
  <2>2. i + 1 \in 1..Len(q) /\ Tail(q)[i] = q[i + 1]
    BY <1>1, <2>1
  <2>3. QED
    BY <2>1, <2>2 DEF EndsOf
<1>5. Head(q).type = "TSEND" /\ Head(q).src = b => Head(q).round \in EndsOf(q, b)
  <2>1. 1 \in 1..Len(q)
    BY <1>1
  <2>2. QED
    BY <1>1, <2>1 DEF EndsOf
<1>6. QED
  BY <1>3, <1>4, <1>5

-----------------------------------------------------------------------------
(* Types *)

LEMMA InitTyped == Init => Typed /\ Addressed
<1>1. SUFFICES ASSUME Init PROVE Typed /\ Addressed
  OBVIOUS
<1>2. \A b \in Boards : axonq[b] = <<>> /\ tsendq[b] = <<>> /\ pending[b] = <<>>
  BY <1>1 DEF Init, Net!Init
<1>3. \A d \in Sinks : chan[d] = <<>>
  BY <1>1 DEF Init, Net!Init, Sinks
<1>4. Typed
  BY <1>1 DEF Init, Net!Init, Typed, Sinks
<1>5. Addressed
  BY <1>2, <1>3 DEF Addressed
<1>6. QED
  BY <1>4, <1>5

LEMMA BoardsFinite ==
  /\ num_boards \in Nat \ {0} /\ IsFiniteSet(Boards)
  /\ \A S \in SUBSET Boards :
       /\ IsFiniteSet(S) /\ Cardinality(S) \in 0..num_boards
       /\ Cardinality(S) = num_boards => S = Boards
<1>1. IsFiniteSet(Boards) /\ Boards # {}
  BY BoardAssumption
<1>2. num_boards \in Nat \ {0}
  BY <1>1, FS_CardinalityType, FS_EmptySet DEF num_boards
<1>3. ASSUME NEW S \in SUBSET Boards
      PROVE  /\ IsFiniteSet(S) /\ Cardinality(S) \in 0..num_boards
             /\ Cardinality(S) = num_boards => S = Boards
  <2>1. /\ IsFiniteSet(S) /\ Cardinality(S) <= num_boards
        /\ num_boards = Cardinality(S) => Boards = S
    BY <1>1, FS_Subset DEF num_boards
  <2>2. Cardinality(S) \in Nat
    BY <2>1, FS_CardinalityType
  <2>3. QED
    BY <2>1, <2>2, <1>2
<1>4. QED
  BY <1>1, <1>2, <1>3

\* The cores and the propagators.
Environment(b) == CoreStart(b) \/ CoreFinish(b) \/ PropagatorDone(b)

\* What PacketConstructor does with an axon and with an end.
ConstructAxon(b) ==
  /\ axonq[b] # <<>>
  /\ pending' = [pending EXCEPT ![b] = Append(@, Head(axonq[b]))]
  /\ axonq' = [axonq EXCEPT ![b] = Tail(@)]
  /\ UNCHANGED <<board, remote, tsm, rep, chan, tsendq>>

ConstructEnd(b) ==
  /\ axonq[b] = <<>> /\ tsendq[b] # <<>>
  /\ pending' = [pending EXCEPT ![b] =
                   Append(@, [type |-> "TSEND", src |-> b, round |-> Head(tsendq[b])])]
  /\ tsendq' = [tsendq EXCEPT ![b] = Tail(@)]
  /\ UNCHANGED <<board, remote, tsm, rep, chan, axonq>>

\* What Route does with the oldest packet of a board.
Routed(b, m) ==
  /\ pending[b] # <<>> /\ m = Head(pending[b])
  /\ chan' = [d \in Sinks |-> IF d \in PacketDests(m) THEN Append(chan[d], m) ELSE chan[d]]
  /\ pending' = [pending EXCEPT ![b] = Tail(@)]
  /\ UNCHANGED <<board, axonq, tsendq, remote, tsm, rep>>

LEMMA ConstructorSteps ==
  ASSUME NEW b \in Boards, PacketConstructor(b)
  PROVE  ConstructAxon(b) \/ ConstructEnd(b)
BY DEF PacketConstructor, ConstructAxon, ConstructEnd, Net!Put

LEMMA RouteStep ==
  ASSUME NEW b \in Boards, Route(b)
  PROVE  Routed(b, Head(pending[b]))
BY DEF Route, Routed, Net!Send, Sinks

\* What PacketDecoder and the reporter do to the queue in front of them.
TakenFrom(d) == chan[d] # <<>> /\ chan' = [chan EXCEPT ![d] = Tail(@)] /\ UNCHANGED pending

LEMMA ConstructAxonTyped ==
  ASSUME Typed, Addressed, NEW b \in Boards, ConstructAxon(b)
  PROVE  (Typed /\ Addressed)'
<1>1. Head(axonq[b]) \in Axons /\ Head(axonq[b]).src = b /\ Head(axonq[b]).dst # b
  <2>1. axonq[b] \in Seq(Axons) /\ axonq[b] # <<>>
    BY DEF Typed, ConstructAxon
  <2>2. Head(axonq[b]) = axonq[b][1] /\ 1 \in 1..Len(axonq[b]) /\ axonq[b][1] \in Axons
    BY <2>1
  <2>3. QED
    BY <2>2 DEF Addressed
<1>2. /\ pending' \in [Boards -> Seq(Pkts)] /\ axonq' \in [Boards -> Seq(Axons)]
  BY <1>1 DEF Typed, ConstructAxon, Pkts
<1>3. Typed'
  BY <1>2 DEF Typed, ConstructAxon, board, tsm, rep
<1>4. ASSUME NEW c \in Boards, NEW i \in 1..Len(axonq'[c])
      PROVE  axonq'[c][i].src = c /\ axonq'[c][i].dst # c
  <2>1. CASE c # b
    BY <1>4, <2>1 DEF Typed, Addressed, ConstructAxon
  <2>2. CASE c = b
    <3>1. axonq'[b] = Tail(axonq[b]) /\ axonq[b] \in Seq(Axons) /\ axonq[b] # <<>>
      BY DEF Typed, ConstructAxon
    <3>2. i + 1 \in 1..Len(axonq[b]) /\ axonq'[b][i] = axonq[b][i + 1]
      BY <1>4, <2>2, <3>1
    <3>3. QED
      BY <2>2, <3>2 DEF Addressed
  <2>3. QED
    BY <2>1, <2>2
<1>5. ASSUME NEW c \in Boards, NEW i \in 1..Len(pending'[c])
      PROVE  /\ pending'[c][i].src = c
             /\ pending'[c][i].type = "AXON" => pending'[c][i].dst # c
  <2>1. CASE c # b
    BY <1>5, <2>1 DEF Typed, Addressed, ConstructAxon
  <2>2. CASE c = b
    <3>1. pending'[b] = Append(pending[b], Head(axonq[b])) /\ pending[b] \in Seq(Pkts)
      BY DEF Typed, ConstructAxon
    <3>2. \/ i \in 1..Len(pending[b]) /\ pending'[b][i] = pending[b][i]
          \/ pending'[b][i] = Head(axonq[b])
      BY <1>5, <2>2, <3>1
    <3>3. QED
      BY <1>1, <2>2, <3>2 DEF Addressed
  <2>3. QED
    BY <2>1, <2>2
<1>6. Addressed'
  BY <1>4, <1>5 DEF Addressed, ConstructAxon
<1>7. QED
  BY <1>3, <1>6

LEMMA ConstructEndTyped ==
  ASSUME Typed, Addressed, NEW b \in Boards, ConstructEnd(b)
  PROVE  (Typed /\ Addressed)'
<1> DEFINE e == [type |-> "TSEND", src |-> b, round |-> Head(tsendq[b])]
<1>1. /\ pending[b] \in Seq(Pkts) /\ tsendq[b] \in Seq(Nat) /\ tsendq[b] # <<>>
      /\ pending'[b] = Append(pending[b], e)
  BY DEF Typed, ConstructEnd
<1>2. e \in Pkts /\ e.src = b /\ e.type = "TSEND"
  <2>1. Head(tsendq[b]) \in Nat
    BY <1>1
  <2>2. QED
    BY <2>1 DEF Pkts, Ends
<1>3. pending' \in [Boards -> Seq(Pkts)] /\ tsendq' \in [Boards -> Seq(Nat)]
  BY <1>1, <1>2 DEF Typed, ConstructEnd
<1>4. Typed'
  BY <1>3 DEF Typed, ConstructEnd, board, tsm, rep
<1>5. ASSUME NEW c \in Boards, NEW i \in 1..Len(pending'[c])
      PROVE  /\ pending'[c][i].src = c
             /\ pending'[c][i].type = "AXON" => pending'[c][i].dst # c
  <2>1. CASE c # b
    BY <1>5, <2>1 DEF Typed, Addressed, ConstructEnd
  <2>2. CASE c = b
    <3>1. \/ i \in 1..Len(pending[b]) /\ pending'[b][i] = pending[b][i]
          \/ pending'[b][i] = e
      BY <1>1, <1>2, <1>5, <2>2
    <3>2. QED
      BY <1>2, <2>2, <3>1 DEF Addressed
  <2>3. QED
    BY <2>1, <2>2
<1>6. Addressed'
  BY <1>5 DEF Addressed, ConstructEnd
<1>7. QED
  BY <1>4, <1>6

\* The packet at the head of a board's link, and where it goes.
LEMMA HeadOfLink ==
  ASSUME Typed, Addressed, NEW b \in Boards, pending[b] # <<>>
  PROVE  /\ Head(pending[b]) \in Pkts /\ Head(pending[b]).src = b
         /\ Head(pending[b]) = pending[b][1] /\ 1 \in 1..Len(pending[b])
         /\ b \notin PacketDests(Head(pending[b]))
         /\ Head(pending[b]).type = "TSEND" => PacketDests(Head(pending[b])) = Sinks \ {b}
         /\ Head(pending[b]).type = "AXON" => PacketDests(Head(pending[b])) = {Head(pending[b]).dst}
<1>1. pending[b] \in Seq(Pkts)
  BY DEF Typed
<1>2. Head(pending[b]) = pending[b][1] /\ 1 \in 1..Len(pending[b]) /\ Head(pending[b]) \in Pkts
  BY <1>1
<1>3. Head(pending[b]).src = b /\ (Head(pending[b]).type = "AXON" => Head(pending[b]).dst # b)
  BY <1>2 DEF Addressed
<1>4. QED
  BY <1>2, <1>3 DEF PacketDests, Pkts, Ends, Axons, Sinks

LEMMA RoutedTyped ==
  ASSUME Typed, Addressed, NEW b \in Boards, NEW m, Routed(b, m)
  PROVE  (Typed /\ Addressed)'
<1>1. /\ m = Head(pending[b]) /\ m \in Pkts /\ m.src = b /\ b \notin PacketDests(m)
      /\ m.type = "AXON" => PacketDests(m) = {m.dst}
  BY HeadOfLink DEF Routed
<1>2. pending' \in [Boards -> Seq(Pkts)]
  BY DEF Typed, Routed
<1>3. chan' \in [Sinks -> Seq(Pkts)]
  BY <1>1 DEF Typed, Routed
<1>4. Typed'
  BY <1>2, <1>3 DEF Typed, Routed, board, tsm, rep
<1>5. ASSUME NEW c \in Boards, NEW i \in 1..Len(pending'[c])
      PROVE  /\ pending'[c][i].src = c
             /\ pending'[c][i].type = "AXON" => pending'[c][i].dst # c
  <2>1. CASE c # b
    BY <1>5, <2>1 DEF Typed, Addressed, Routed
  <2>2. CASE c = b
    <3>1. pending'[b] = Tail(pending[b]) /\ pending[b] \in Seq(Pkts) /\ pending[b] # <<>>
      BY DEF Typed, Routed
    <3>2. i + 1 \in 1..Len(pending[b]) /\ pending'[b][i] = pending[b][i + 1]
      BY <1>5, <2>2, <3>1
    <3>3. QED
      BY <2>2, <3>2 DEF Addressed
  <2>3. QED
    BY <2>1, <2>2
<1>6. ASSUME NEW d \in Sinks, NEW i \in 1..Len(chan'[d])
      PROVE  /\ chan'[d][i].src # d
             /\ chan'[d][i].type = "AXON" => chan'[d][i].dst = d
  <2>1. CASE d \notin PacketDests(m)
    BY <1>6, <2>1 DEF Addressed, Routed
  <2>2. CASE d \in PacketDests(m)
    <3>1. chan'[d] = Append(chan[d], m) /\ chan[d] \in Seq(Pkts)
      BY <2>2 DEF Typed, Routed
    <3>2. \/ i \in 1..Len(chan[d]) /\ chan'[d][i] = chan[d][i]
          \/ chan'[d][i] = m
      BY <1>6, <3>1
    <3>3. QED
      BY <1>1, <2>2, <3>2 DEF Addressed
  <2>3. QED
    BY <2>1, <2>2
<1>7. Addressed'
  BY <1>5, <1>6 DEF Addressed, Routed
<1>8. QED
  BY <1>4, <1>7

LEMMA TakenAddressed ==
  ASSUME Typed, Addressed, NEW d \in Sinks, TakenFrom(d), UNCHANGED axonq
  PROVE  chan' \in [Sinks -> Seq(Pkts)] /\ Addressed'
<1>1. chan' \in [Sinks -> Seq(Pkts)]
  BY DEF Typed, TakenFrom
<1>2. ASSUME NEW e \in Sinks, NEW i \in 1..Len(chan'[e])
      PROVE  /\ chan'[e][i].src # e
             /\ chan'[e][i].type = "AXON" => chan'[e][i].dst = e
  <2>1. CASE e # d
    BY <1>2, <2>1 DEF Typed, Addressed, TakenFrom
  <2>2. CASE e = d
    <3>1. chan'[d] = Tail(chan[d]) /\ chan[d] \in Seq(Pkts) /\ chan[d] # <<>>
      BY DEF Typed, TakenFrom
    <3>2. i + 1 \in 1..Len(chan[d]) /\ chan'[d][i] = chan[d][i + 1]
      BY <1>2, <2>2, <3>1
    <3>3. QED
      BY <2>2, <3>2 DEF Addressed
  <2>3. QED
    BY <2>1, <2>2
<1>3. QED
  BY <1>1, <1>2 DEF Addressed, TakenFrom

LEMMA TSManagerTyped ==
  ASSUME Typed, Addressed, NEW b \in Boards, TSManager(b)
  PROVE  (Typed /\ Addressed)'
<1>1. Got(b) \in {0, 1} /\ Got(b) <= remote[b] /\ remote[b] \in Nat
  BY DEF Got, Typed
<1>2. Counted(b) \in Nat
  BY <1>1 DEF Counted, Typed
<1>3. cur_timestep[b] \in Nat /\ tsendq[b] \in Seq(Nat)
  BY DEF Typed
<1>4. remote' \in [Boards -> Nat] /\ end_counter' \in [Boards -> Nat]
  BY <1>1, <1>2 DEF Typed, TSManager
<1>5. tsendq' \in [Boards -> Seq(Nat)] /\ cur_timestep' \in [Boards -> Nat]
  BY <1>3 DEF Typed, TSManager
<1>6. is_start' \in [Boards -> BOOLEAN]
  <2>1. (Starts(b) /\ ~Flips(b)) \in BOOLEAN
    BY DEF Starts
  <2>2. QED
    BY <2>1, Zenon DEF Typed, TSManager
<1>7. is_end' \in [Boards -> BOOLEAN]
  <2>1. ((is_end[b] \/ Ending(b)) /\ ~Flips(b)) \in BOOLEAN
    OBVIOUS
  <2>2. QED
    BY <2>1, Zenon DEF Typed, TSManager
<1>8. UNCHANGED <<dynfin, idle, axonq, pending, chan, rep_counter, rep_timestep>>
  BY DEF TSManager, net, rep
<1>9. Typed'
  BY <1>4, <1>5, <1>6, <1>7, <1>8 DEF Typed
<1>10. Addressed'
  BY <1>8 DEF Addressed
<1>11. QED
  BY <1>9, <1>10

LEMMA SendAxonTyped ==
  ASSUME Typed, Addressed, NEW b \in Boards, NEW d \in Boards, SendAxon(b, d)
  PROVE  (Typed /\ Addressed)'
<1> DEFINE a == [type |-> "AXON", src |-> b, dst |-> d, round |-> cur_timestep[b]]
<1>1. a \in Axons /\ a.src = b /\ a.dst = d /\ d # b
  BY DEF Typed, Axons, SendAxon
<1>2. axonq[b] \in Seq(Axons) /\ axonq'[b] = Append(axonq[b], a)
  BY DEF Typed, SendAxon
<1>3. axonq' \in [Boards -> Seq(Axons)]
  BY <1>1, <1>2 DEF Typed, SendAxon
<1>4. Typed'
  BY <1>3 DEF Typed, SendAxon, net, tsm, rep
<1>5. ASSUME NEW c \in Boards, NEW i \in 1..Len(axonq'[c])
      PROVE  axonq'[c][i].src = c /\ axonq'[c][i].dst # c
  <2>1. CASE c # b
    <3>1. axonq'[c] = axonq[c]
      BY <2>1, Zenon DEF Typed, SendAxon
    <3>2. QED
      BY <1>5, <3>1 DEF Addressed
  <2>2. CASE c = b
    <3>1. \/ i \in 1..Len(axonq[b]) /\ axonq'[b][i] = axonq[b][i]
          \/ axonq'[b][i] = a
      BY <1>1, <1>2, <1>5, <2>2
    <3>2. QED
      BY <1>1, <2>2, <3>1 DEF Addressed
  <2>3. QED
    BY <2>1, <2>2
<1>6. Addressed'
  BY <1>5 DEF Addressed, SendAxon, net
<1>7. QED
  BY <1>4, <1>6

LEMMA EnvironmentTyped ==
  ASSUME Typed, Addressed, NEW b \in Boards, Environment(b)
  PROVE  /\ (Typed /\ Addressed)'
         /\ UNCHANGED <<axonq, tsendq, remote, tsm, net, rep>>
<1>1. /\ UNCHANGED <<axonq, tsendq, remote, tsm, net, rep>>
      /\ \/ dynfin' = [dynfin EXCEPT ![b] = FALSE] /\ idle' = idle
         \/ dynfin' = [dynfin EXCEPT ![b] = TRUE] /\ idle' = idle
         \/ idle' = [idle EXCEPT ![b] = TRUE] /\ dynfin' = dynfin
  BY Zenon DEF Environment, CoreStart, CoreFinish, PropagatorDone
<1>2. dynfin' \in [Boards -> BOOLEAN] /\ idle' \in [Boards -> BOOLEAN]
  BY <1>1, Zenon DEF Typed
<1>3. QED
  BY <1>1, <1>2 DEF Typed, Addressed, tsm, net, rep

LEMMA DecoderTyped ==
  ASSUME Typed, Addressed, NEW b \in Boards, PacketDecoder(b)
  PROVE  (Typed /\ Addressed)'
<1>1. TakenFrom(b) /\ b \in Sinks /\ UNCHANGED axonq
  BY DEF PacketDecoder, Net!Take, TakenFrom, Sinks
<1>2. chan' \in [Sinks -> Seq(Pkts)] /\ Addressed'
  BY <1>1, TakenAddressed
<1>3. remote' \in [Boards -> Nat]
  <2>1. remote' = remote \/ remote' = [remote EXCEPT ![b] = @ + 1]
    BY DEF PacketDecoder
  <2>2. remote \in [Boards -> Nat]
    BY DEF Typed
  <2>3. QED
    BY <2>1, <2>2
<1>4. idle' \in [Boards -> BOOLEAN]
  <2>1. idle' = idle \/ idle' = [idle EXCEPT ![b] = FALSE]
    BY DEF PacketDecoder
  <2>2. QED
    BY <2>1, Zenon DEF Typed
<1>5. UNCHANGED <<dynfin, axonq, tsendq, tsm, rep, pending>>
  BY DEF PacketDecoder, Net!Take
<1>6. QED
  BY <1>2, <1>3, <1>4, <1>5 DEF Typed, tsm, rep

LEMMA ReporterTyped ==
  ASSUME Typed, Addressed, TimestepReporter
  PROVE  (Typed /\ Addressed)'
<1>1. TakenFrom(Reporter) /\ Reporter \in Sinks /\ UNCHANGED axonq
  BY DEF TimestepReporter, Net!Take, TakenFrom, Sinks
<1>2. chan' \in [Sinks -> Seq(Pkts)] /\ Addressed'
  BY <1>1, TakenAddressed
<1>3. rep_counter' \in Nat /\ rep_timestep' \in Nat
  BY DEF Typed, TimestepReporter
<1>4. UNCHANGED <<board, axonq, tsendq, remote, tsm, pending>>
  BY DEF TimestepReporter, Net!Take
<1>5. QED
  BY <1>2, <1>3, <1>4 DEF Typed, board, tsm

-----------------------------------------------------------------------------
(* How the steps change what is under way *)

LEMMA UnderSame ==
  ASSUME UNCHANGED <<chan, pending, tsendq>>, NEW d, NEW b
  PROVE  Under(d, b)' = Under(d, b) /\ Waiting(b)' = Waiting(b)
BY DEF Under, Waiting, EndsOf

LEMMA ConstructAxonUnder ==
  ASSUME Typed, NEW b \in Boards, ConstructAxon(b), NEW c \in Boards
  PROVE  /\ EndsOf(pending[c], c)' = EndsOf(pending[c], c)
         /\ Waiting(c)' = Waiting(c)
         /\ \A d : Under(d, c)' = Under(d, c)
<1>1. EndsOf(pending'[c], c) = EndsOf(pending[c], c)
  <2>1. CASE c # b
    BY <2>1 DEF Typed, ConstructAxon
  <2>2. CASE c = b
    <3>1. axonq[b] \in Seq(Axons) /\ axonq[b] # <<>> /\ pending[b] \in Seq(Pkts)
      BY DEF Typed, ConstructAxon
    <3>2. Head(axonq[b]) \in Axons
      BY <3>1
    <3>3. Head(axonq[b]) \in Pkts /\ Head(axonq[b]).type = "AXON"
      BY <3>2 DEF Axons, Pkts
    <3>4. EndsOf(Append(pending[b], Head(axonq[b])), b) = EndsOf(pending[b], b) \union {}
      BY <3>1, <3>3, EndsOfAppend
    <3>5. QED
      BY <2>2, <3>4 DEF Typed, ConstructAxon
  <2>3. QED
    BY <2>1, <2>2
<1>2. tsendq' = tsendq /\ chan' = chan
  BY DEF ConstructAxon
<1>3. EndsOf(pending[c], c)' = EndsOf(pending[c], c)
  BY <1>1 DEF EndsOf
<1>4. Waiting(c)' = Waiting(c)
  BY <1>2, <1>3 DEF Waiting
<1>5. QED
  BY <1>2, <1>3, <1>4 DEF Under, EndsOf

\* An end that is constructed moves from one place where it waits to another.
LEMMA ConstructEndUnder ==
  ASSUME Typed, NEW b \in Boards, ConstructEnd(b), NEW c \in Boards
  PROVE  /\ EndsOf(pending[c], c)' =
              EndsOf(pending[c], c) \union (IF c = b THEN {Head(tsendq[b])} ELSE {})
         /\ Waiting(c)' = Waiting(c)
         /\ \A d : Under(d, c)' = Under(d, c)
<1> DEFINE e == [type |-> "TSEND", src |-> b, round |-> Head(tsendq[b])]
<1>1. /\ pending[b] \in Seq(Pkts) /\ tsendq[b] \in Seq(Nat) /\ tsendq[b] # <<>>
      /\ pending'[b] = Append(pending[b], e) /\ tsendq'[b] = Tail(tsendq[b])
      /\ chan' = chan
  BY DEF Typed, ConstructEnd
<1>2. e \in Pkts
  <2>1. Head(tsendq[b]) \in Nat
    BY <1>1
  <2>2. QED
    BY <2>1 DEF Pkts, Ends
<1>3. EndsOf(pending'[b], b) = EndsOf(pending[b], b) \union {Head(tsendq[b])}
  BY <1>1, <1>2, EndsOfAppend
<1>4. EndsOf(pending[c], c)' =
        EndsOf(pending[c], c) \union (IF c = b THEN {Head(tsendq[b])} ELSE {})
  <2>1. CASE c # b
    <3>1. pending'[c] = pending[c]
      BY <2>1 DEF Typed, ConstructEnd
    <3>2. QED
      BY <2>1, <3>1 DEF EndsOf
  <2>2. CASE c = b
    <3>1. EndsOf(pending[b], b)' = EndsOf(pending'[b], b)
      BY DEF EndsOf
    <3>2. EndsOf(pending[b], b)' = EndsOf(pending[b], b) \union {Head(tsendq[b])}
      BY <1>3, <3>1
    <3>3. QED
      BY <2>2, <3>2
  <2>3. QED
    BY <2>1, <2>2
<1>5. {tsendq[b][i] : i \in 1..Len(tsendq[b])}
        = {Head(tsendq[b])} \union {tsendq'[b][i] : i \in 1..Len(tsendq'[b])}
  <2>1. /\ Len(tsendq[b]) \in Nat \ {0} /\ Len(tsendq'[b]) = Len(tsendq[b]) - 1
        /\ Head(tsendq[b]) = tsendq[b][1]
        /\ \A i \in 1..Len(tsendq'[b]) : tsendq'[b][i] = tsendq[b][i + 1]
    BY <1>1
  <2>2. ASSUME NEW i \in 1..Len(tsendq[b])
        PROVE  \/ tsendq[b][i] = Head(tsendq[b])
               \/ \E k \in 1..Len(tsendq'[b]) : tsendq'[b][k] = tsendq[b][i]
    <3>1. CASE i = 1
      BY <2>1, <3>1
    <3>2. CASE i # 1
      <4>1. i - 1 \in 1..Len(tsendq'[b]) /\ tsendq'[b][i - 1] = tsendq[b][i]
        BY <2>1, <2>2, <3>2
      <4>2. QED
        BY <4>1
    <3>3. QED
      BY <3>1, <3>2
  <2>3. ASSUME NEW i \in 1..Len(tsendq'[b])
        PROVE  \E k \in 1..Len(tsendq[b]) : tsendq[b][k] = tsendq'[b][i]
    <3>1. i + 1 \in 1..Len(tsendq[b]) /\ tsendq[b][i + 1] = tsendq'[b][i]
      BY <2>1, <2>3
    <3>2. QED
      BY <3>1
  <2>4. \E k \in 1..Len(tsendq[b]) : tsendq[b][k] = Head(tsendq[b])
    BY <2>1
  <2>5. ASSUME NEW r
        PROVE  (\E k \in 1..Len(tsendq[b]) : tsendq[b][k] = r)
                 <=> r = Head(tsendq[b]) \/ \E k \in 1..Len(tsendq'[b]) : tsendq'[b][k] = r
    BY <2>2, <2>3, <2>4
  <2>6. QED
    BY <2>5
<1>6. Waiting(c)' = Waiting(c)
  <2>1. CASE c # b
    BY <1>4, <2>1 DEF Typed, ConstructEnd, Waiting
  <2>2. CASE c = b
    <3>1. EndsOf(pending[b], b)' = EndsOf(pending[b], b) \union {Head(tsendq[b])}
      BY <1>3 DEF EndsOf
    <3>2. Waiting(b)' = EndsOf(pending[b], b)' \union {tsendq'[b][i] : i \in 1..Len(tsendq'[b])}
      BY DEF Waiting
    <3>3. Waiting(b)' = Waiting(b)
      BY <1>5, <3>1, <3>2 DEF Waiting
    <3>4. QED
      BY <2>2, <3>3
  <2>3. QED
    BY <2>1, <2>2
<1>7. QED
  BY <1>1, <1>4, <1>6 DEF Under, EndsOf

\* An end that the router takes is under way to the same sinks before and
\* after; it waits no longer.
LEMMA RoutedUnder ==
  ASSUME Typed, Addressed, NEW b \in Boards, NEW m, Routed(b, m), NEW c \in Boards
  PROVE  /\ EndsOf(pending[c], c)
              = EndsOf(pending[c], c)'
                \union (IF c = b /\ m.type = "TSEND" THEN {m.round} ELSE {})
         /\ \A d \in Sinks :
              EndsOf(chan[d], c)'
                = EndsOf(chan[d], c)
                  \union (IF c = b /\ d # b /\ m.type = "TSEND" THEN {m.round} ELSE {})
         /\ Waiting(c) = Waiting(c)'
                         \union (IF c = b /\ m.type = "TSEND" THEN {m.round} ELSE {})
         /\ \A d \in Sinks : Under(d, c)' = Under(d, c)
<1> DEFINE end == IF c = b /\ m.type = "TSEND" THEN {m.round} ELSE {}
<1>1. /\ pending[b] \in Seq(Pkts) /\ pending[b] # <<>> /\ m = Head(pending[b])
      /\ m \in Pkts /\ m.src = b /\ b \notin PacketDests(m)
      /\ m.type = "TSEND" => PacketDests(m) = Sinks \ {b}
  BY HeadOfLink DEF Typed, Routed
<1>2. EndsOf(pending[c], c) = EndsOf(pending'[c], c) \union end
  <2>1. CASE c # b
    BY <2>1 DEF Typed, Routed
  <2>2. CASE c = b
    <3>1. pending'[b] = Tail(pending[b])
      BY DEF Typed, Routed
    <3>2. QED
      BY <1>1, <2>2, <3>1, EndsOfTail
  <2>3. QED
    BY <2>1, <2>2
<1>3. ASSUME NEW d \in Sinks
      PROVE  EndsOf(chan'[d], c) = EndsOf(chan[d], c) \union (IF d # b THEN end ELSE {})
  <2>1. chan[d] \in Seq(Pkts)
    BY DEF Typed
  <2>2. CASE d \in PacketDests(m)
    <3>1. chan'[d] = Append(chan[d], m) /\ d # b
      BY <1>1, <2>2 DEF Routed
    <3>2. EndsOf(chan'[d], c) = EndsOf(chan[d], c) \union
            (IF m.type = "TSEND" /\ m.src = c THEN {m.round} ELSE {})
      BY <1>1, <2>1, <3>1, EndsOfAppend
    <3>3. QED
      BY <1>1, <3>1, <3>2
  <2>3. CASE d \notin PacketDests(m)
    <3>1. chan'[d] = chan[d]
      BY <2>3 DEF Routed
    <3>2. (IF d # b THEN end ELSE {}) = {}
      BY <1>1, <2>3
    <3>3. QED
      BY <3>1, <3>2
  <2>4. QED
    BY <2>2, <2>3
<1>4. tsendq' = tsendq
  BY DEF Routed
<1>5. /\ EndsOf(pending[c], c)' = EndsOf(pending'[c], c)
      /\ \A d : EndsOf(chan[d], c)' = EndsOf(chan'[d], c)
  BY DEF EndsOf
<1>6. Waiting(c) = Waiting(c)' \union end
  BY <1>2, <1>4, <1>5 DEF Waiting
<1>7. ASSUME NEW d \in Sinks PROVE Under(d, c)' = Under(d, c)
  <2>1. CASE d = c
    BY <2>1 DEF Under
  <2>2. CASE d # c
    <3>1. EndsOf(chan[d], c)' = EndsOf(chan[d], c) \union end
      BY <1>3, <1>5, <2>2
    <3>2. QED
      BY <1>6, <2>2, <3>1 DEF Under
  <2>3. QED
    BY <2>1, <2>2
<1>8. QED
  BY <1>2, <1>3, <1>5, <1>6, <1>7

\* The end that is taken is the oldest that was under way from that board.
LEMMA TakenUnder ==
  ASSUME Queues, NEW d \in Sinks, TakenFrom(d), UNCHANGED tsendq, NEW c \in Boards
  PROVE  /\ \A e \in Sinks \ {d} : Under(e, c)' = Under(e, c)
         /\ Waiting(c)' = Waiting(c) /\ EndsOf(pending[c], c)' = EndsOf(pending[c], c)
         /\ LET m == Head(chan[d])
            IN IF m.type = "TSEND" /\ m.src = c
               THEN /\ Under(d, c) = Under(d, c)' \union {m.round}
                    /\ \A r \in Under(d, c)' : m.round < r
               ELSE Under(d, c)' = Under(d, c)
<1> DEFINE m == Head(chan[d])
<1>1. /\ chan[d] \in Seq(Pkts) /\ chan[d] # <<>> /\ chan'[d] = Tail(chan[d])
      /\ pending' = pending /\ \A e \in Sinks \ {d} : chan'[e] = chan[e]
  BY DEF Queues, Typed, TakenFrom
<1>2. m = chan[d][1] /\ 1 \in 1..Len(chan[d]) /\ m.src # d
  BY <1>1 DEF Queues, Addressed
<1>3. Waiting(c)' = Waiting(c) /\ EndsOf(pending[c], c)' = EndsOf(pending[c], c)
  BY <1>1 DEF Waiting, EndsOf
<1>4. ASSUME NEW e \in Sinks \ {d} PROVE Under(e, c)' = Under(e, c)
  <2>1. EndsOf(chan[e], c)' = EndsOf(chan[e], c)
    BY <1>1 DEF EndsOf
  <2>2. QED
    BY <1>3, <2>1 DEF Under
<1>5. EndsOf(chan[d], c) = EndsOf(chan'[d], c)
        \union (IF m.type = "TSEND" /\ m.src = c THEN {m.round} ELSE {})
  BY <1>1, EndsOfTail
<1>6. EndsOf(chan[d], c)' = EndsOf(chan'[d], c)
  BY DEF EndsOf
<1>7. CASE m.type = "TSEND" /\ m.src = c
  <2>1. c # d
    BY <1>2, <1>7
  <2>2. Under(d, c) = Under(d, c)' \union {m.round}
    BY <1>3, <1>5, <1>6, <1>7, <2>1 DEF Under
  <2>3. ASSUME NEW r \in EndsOf(chan'[d], c) PROVE m.round < r
    <3>1. PICK i \in 1..Len(chan'[d]) :
            chan'[d][i].type = "TSEND" /\ chan'[d][i].src = c /\ chan'[d][i].round = r
      BY <2>3 DEF EndsOf
    <3>2. i + 1 \in 1..Len(chan[d]) /\ chan'[d][i] = chan[d][i + 1] /\ 1 < i + 1
      BY <1>1
    <3>3. chan[d][1].round < chan[d][i + 1].round
      BY <1>2, <1>7, <3>1, <3>2 DEF Queues, Sorted
    <3>4. QED
      BY <1>2, <3>1, <3>2, <3>3
  <2>4. ASSUME NEW r \in Waiting(c) PROVE m.round < r
    <3>1. m.round \in EndsOf(chan[d], c)
      BY <1>5, <1>7
    <3>2. QED
      BY <2>1, <3>1 DEF Queues, Increasing
  <2>5. QED
    BY <1>3, <1>4, <1>6, <1>7, <2>1, <2>2, <2>3, <2>4 DEF Under
<1>8. CASE ~(m.type = "TSEND" /\ m.src = c)
  <2>1. Under(d, c)' = Under(d, c)
    BY <1>3, <1>5, <1>6, <1>8 DEF Under
  <2>2. QED
    BY <1>3, <1>4, <1>8, <2>1
<1>9. QED
  BY <1>7, <1>8

-----------------------------------------------------------------------------
(* The ends of a board stay in order *)

LEMMA InitOrder == Init => Increasing /\ Sorted
<1>1. SUFFICES ASSUME Init PROVE Increasing /\ Sorted
  OBVIOUS
<1>2. \A b \in Boards : tsendq[b] = <<>> /\ pending[b] = <<>>
  BY <1>1 DEF Init, Net!Init
<1>3. \A d \in Sinks : chan[d] = <<>>
  BY <1>1 DEF Init, Net!Init, Sinks
<1>4. QED
  BY <1>2, <1>3 DEF Increasing, Sorted, EndsOf

LEMMA QueuesSame ==
  ASSUME Increasing, Sorted, UNCHANGED <<chan, pending, tsendq>>
  PROVE  (Increasing /\ Sorted)'
<1>1. \A b : Waiting(b)' = Waiting(b) /\ EndsOf(pending[b], b)' = EndsOf(pending[b], b)
  BY DEF Waiting, EndsOf
<1>2. \A d, b : EndsOf(chan[d], b)' = EndsOf(chan[d], b)
  BY DEF EndsOf
<1>3. QED
  BY <1>1, <1>2 DEF Increasing, Sorted

LEMMA ConstructAxonOrder ==
  ASSUME Queues, NEW b \in Boards, ConstructAxon(b)
  PROVE  (Increasing /\ Sorted)'
<1> USE DEF Queues
<1>1. chan' = chan /\ tsendq' = tsendq
  BY DEF ConstructAxon
<1>2. Sorted'
  BY <1>1 DEF Sorted
<1>3. \A c \in Boards :
        EndsOf(pending[c], c)' = EndsOf(pending[c], c) /\ Waiting(c)' = Waiting(c)
  BY ConstructAxonUnder
<1>4. \A d \in Sinks, c \in Boards : EndsOf(chan[d], c)' = EndsOf(chan[d], c)
  BY <1>1 DEF EndsOf
<1>5. ASSUME NEW c \in Boards, NEW i \in 1..Len(pending'[c]), NEW j \in 1..Len(pending'[c]),
             pending'[c][i].type = "TSEND", pending'[c][j].type = "TSEND", i < j
      PROVE  pending'[c][i].round < pending'[c][j].round
  <2>1. CASE c # b
    BY <1>5, <2>1 DEF Increasing, Typed, ConstructAxon
  <2>2. CASE c = b
    <3>1. /\ pending'[b] = Append(pending[b], Head(axonq[b])) /\ pending[b] \in Seq(Pkts)
          /\ axonq[b] \in Seq(Axons) /\ axonq[b] # <<>>
      BY DEF Typed, ConstructAxon
    <3>2. Head(axonq[b]).type = "AXON"
      <4>1. Head(axonq[b]) \in Axons
        BY <3>1
      <4>2. QED
        BY <4>1 DEF Axons
    <3>3. /\ i \in 1..Len(pending[b]) /\ pending'[b][i] = pending[b][i]
          /\ j \in 1..Len(pending[b]) /\ pending'[b][j] = pending[b][j]
      BY <1>5, <2>2, <3>1, <3>2
    <3>4. QED
      BY <1>5, <2>2, <3>3 DEF Increasing
  <2>3. QED
    BY <2>1, <2>2
<1>6. Increasing'
  BY <1>1, <1>3, <1>4, <1>5 DEF Increasing
<1>7. QED
  BY <1>2, <1>6

LEMMA ConstructEndOrder ==
  ASSUME Queues, NEW b \in Boards, ConstructEnd(b)
  PROVE  (Increasing /\ Sorted)'
<1> USE DEF Queues
<1> DEFINE e == [type |-> "TSEND", src |-> b, round |-> Head(tsendq[b])]
<1>1. /\ chan' = chan /\ pending' = [pending EXCEPT ![b] = Append(@, e)]
      /\ tsendq' = [tsendq EXCEPT ![b] = Tail(@)]
      /\ pending[b] \in Seq(Pkts) /\ tsendq[b] \in Seq(Nat) /\ tsendq[b] # <<>>
  BY DEF Typed, ConstructEnd
<1>2. /\ 1 \in 1..Len(tsendq[b]) /\ Head(tsendq[b]) = tsendq[b][1]
      /\ Len(tsendq'[b]) = Len(tsendq[b]) - 1 /\ Len(tsendq[b]) \in Nat
      /\ \A i \in 1..Len(tsendq'[b]) :
           i + 1 \in 1..Len(tsendq[b]) /\ tsendq'[b][i] = tsendq[b][i + 1] /\ 1 < i + 1
  BY <1>1 DEF Typed
<1>3. Sorted'
  BY <1>1 DEF Sorted
<1>4. \A c \in Boards :
        /\ EndsOf(pending[c], c)' =
             EndsOf(pending[c], c) \union (IF c = b THEN {Head(tsendq[b])} ELSE {})
        /\ Waiting(c)' = Waiting(c)
  BY ConstructEndUnder
<1>5. \A d \in Sinks, c \in Boards : EndsOf(chan[d], c)' = EndsOf(chan[d], c)
  BY <1>1 DEF EndsOf
<1>6. ASSUME NEW c \in Boards, NEW i \in 1..Len(tsendq'[c]), NEW j \in 1..Len(tsendq'[c]), i < j
      PROVE  tsendq'[c][i] < tsendq'[c][j]
  <2>1. CASE c # b
    BY <1>1, <1>6, <2>1 DEF Increasing, Typed
  <2>2. CASE c = b
    BY <1>2, <1>6, <2>2 DEF Increasing
  <2>3. QED
    BY <2>1, <2>2
<1>7. ASSUME NEW c \in Boards, NEW i \in 1..Len(pending'[c]), NEW j \in 1..Len(pending'[c]),
             pending'[c][i].type = "TSEND", pending'[c][j].type = "TSEND", i < j
      PROVE  pending'[c][i].round < pending'[c][j].round
  <2>1. CASE c # b
    BY <1>1, <1>7, <2>1 DEF Increasing, Typed
  <2>2. CASE c = b
    <3>1. /\ i \in 1..Len(pending[b]) /\ pending'[b][i] = pending[b][i]
          /\ \/ j \in 1..Len(pending[b]) /\ pending'[b][j] = pending[b][j]
             \/ pending'[b][j] = e
      BY <1>1, <1>7, <2>2 DEF Typed
    <3>2. pending[b][i].src = b /\ pending[b][i].round \in EndsOf(pending[b], b)
      BY <1>7, <2>2, <3>1 DEF Addressed, EndsOf
    <3>3. pending[b][i].round < Head(tsendq[b])
      BY <1>2, <3>2 DEF Increasing
    <3>4. QED
      BY <1>7, <2>2, <3>1, <3>3 DEF Increasing
  <2>3. QED
    BY <2>1, <2>2
<1>8. ASSUME NEW c \in Boards, NEW i \in 1..Len(tsendq'[c]), NEW r \in EndsOf(pending[c], c)'
      PROVE  r < tsendq'[c][i]
  <2>1. CASE c # b
    BY <1>1, <1>4, <1>8, <2>1 DEF Increasing, Typed
  <2>2. CASE c = b
    <3>1. i + 1 \in 1..Len(tsendq[b]) /\ tsendq'[b][i] = tsendq[b][i + 1]
      BY <1>2, <1>8, <2>2
    <3>2. r \in EndsOf(pending[b], b) \/ r = Head(tsendq[b])
      BY <1>4, <1>8, <2>2
    <3>3. CASE r \in EndsOf(pending[b], b)
      BY <2>2, <3>1, <3>3 DEF Increasing
    <3>4. CASE r = Head(tsendq[b])
      <4>1. tsendq[b][1] < tsendq[b][i + 1]
        BY <1>2, <3>1, <1>8, <2>2 DEF Increasing
      <4>2. QED
        BY <1>2, <2>2, <3>1, <3>4, <4>1
    <3>5. QED
      BY <3>2, <3>3, <3>4
  <2>3. QED
    BY <2>1, <2>2
<1>9. ASSUME NEW c \in Boards, NEW d \in Sinks \ {c}, NEW r \in EndsOf(chan[d], c)',
             NEW s \in Waiting(c)'
      PROVE  r < s
  BY <1>4, <1>5, <1>9 DEF Increasing
<1>10. Increasing'
  BY <1>6, <1>7, <1>8, <1>9 DEF Increasing
<1>11. QED
  BY <1>3, <1>10

LEMMA DoneType ==
  ASSUME Typed
  PROVE  /\ done \in [Boards -> Nat] /\ cur_timestep \in [Boards -> Nat]
         /\ \A b \in Boards :
              /\ done[b] = cur_timestep[b] + (IF is_end[b] THEN 1 ELSE 0)
              /\ cur_timestep[b] <= done[b] /\ done[b] <= cur_timestep[b] + 1
BY DEF done, Typed

\* The router can only take an end of a timestep that everyone has reached.
LEMMA EndsSettled ==
  ASSUME Queues, Contiguous, NotPassed, NEW b \in Boards, NEW r \in Waiting(b),
         NEW c \in Boards, NEW d \in Sinks, NEW s \in EndsOf(chan[d], c), c # d
  PROVE  s \in Nat /\ r \in Nat /\ s <= r
<1>1. s \in Under(d, c) /\ r \in Under(Reporter, b) /\ Reporter \in Sinks
  BY BoardAssumption DEF Under, Sinks
<1>2. s \in Nat
  BY EndsOfType DEF Queues, Typed
<1>3. r \in Nat
  BY EndsOfType, SMTT(60) DEF Waiting, Queues, Typed
<1>4. s < done[c] /\ r < done[b]
  BY <1>1 DEF Contiguous
<1>5. CASE c = b
  <2>1. d \in Sinks \ {b}
    BY <1>5
  <2>2. s < r
    BY <1>5, <2>1 DEF Queues, Increasing
  <2>3. QED
    BY <1>2, <1>3, <2>2
<1>6. CASE c # b
  <2>1. r \in Under(c, b)
    BY <1>6 DEF Under
  <2>2. cur_timestep[c] <= r
    BY <2>1 DEF NotPassed
  <2>3. QED
    BY <1>2, <1>3, <1>4, <2>2, DoneType DEF Queues
<1>7. QED
  BY <1>5, <1>6

LEMMA RoutedOrder ==
  ASSUME Queues, Contiguous, NotPassed, NEW b \in Boards, NEW m, Routed(b, m)
  PROVE  (Increasing /\ Sorted)'
<1> USE DEF Queues
<1>1. /\ tsendq' = tsendq /\ pending' = [pending EXCEPT ![b] = Tail(@)]
      /\ pending[b] \in Seq(Pkts) /\ pending[b] # <<>>
      /\ m \in Pkts /\ m.src = b /\ m = pending[b][1] /\ 1 \in 1..Len(pending[b])
      /\ \A d \in Sinks : chan'[d] = IF d \in PacketDests(m) THEN Append(chan[d], m) ELSE chan[d]
      /\ b \notin PacketDests(m)
  BY HeadOfLink DEF Typed, Routed
<1>2. ASSUME NEW c \in Boards
      PROVE  /\ EndsOf(pending[c], c)'  \subseteq EndsOf(pending[c], c)
             /\ Waiting(c)' \subseteq Waiting(c)
             /\ \A d \in Sinks :
                  EndsOf(chan[d], c)'
                    = EndsOf(chan[d], c)
                      \union (IF c = b /\ d # b /\ m.type = "TSEND" THEN {m.round} ELSE {})
  BY RoutedUnder
<1>3. m.type = "TSEND" => m.round \in EndsOf(pending[b], b) /\ m.round \in Waiting(b)
  BY <1>1 DEF EndsOf, Waiting
<1>4. ASSUME m.type = "TSEND", NEW s \in Waiting(b)' PROVE m.round < s
  <2>1. \/ s \in EndsOf(pending'[b], b)
        \/ \E i \in 1..Len(tsendq[b]) : s = tsendq[b][i]
    BY <1>1, <1>4 DEF Waiting, EndsOf
  <2>2. CASE s \in EndsOf(pending'[b], b)
    <3>1. PICK i \in 1..Len(pending'[b]) :
            pending'[b][i].type = "TSEND" /\ pending'[b][i].round = s
      BY <2>2 DEF EndsOf
    <3>2. i + 1 \in 1..Len(pending[b]) /\ pending'[b][i] = pending[b][i + 1] /\ 1 < i + 1
      BY <1>1 DEF Typed
    <3>3. pending[b][1].round < pending[b][i + 1].round
      BY <1>1, <1>4, <3>1, <3>2 DEF Increasing
    <3>4. QED
      BY <1>1, <3>1, <3>2, <3>3
  <2>3. CASE \E i \in 1..Len(tsendq[b]) : s = tsendq[b][i]
    BY <1>3, <1>4, <2>3 DEF Increasing
  <2>4. QED
    BY <2>1, <2>2, <2>3
<1>5. ASSUME NEW c \in Boards, NEW i \in 1..Len(pending'[c]), NEW j \in 1..Len(pending'[c]),
             pending'[c][i].type = "TSEND", pending'[c][j].type = "TSEND", i < j
      PROVE  pending'[c][i].round < pending'[c][j].round
  <2>1. CASE c # b
    BY <1>1, <1>5, <2>1 DEF Increasing, Typed
  <2>2. CASE c = b
    <3>1. /\ i + 1 \in 1..Len(pending[b]) /\ pending'[b][i] = pending[b][i + 1]
          /\ j + 1 \in 1..Len(pending[b]) /\ pending'[b][j] = pending[b][j + 1]
          /\ i + 1 < j + 1
      BY <1>1, <1>5, <2>2 DEF Typed
    <3>2. pending[b][i + 1].round < pending[b][j + 1].round
      BY <1>5, <2>2, <3>1 DEF Increasing
    <3>3. QED
      BY <2>2, <3>1, <3>2
  <2>3. QED
    BY <2>1, <2>2
<1>6. ASSUME NEW c \in Boards, NEW d \in Sinks \ {c}, NEW r \in EndsOf(chan[d], c)',
             NEW s \in Waiting(c)'
      PROVE  r < s
  <2>1. CASE r \in EndsOf(chan[d], c)
    BY <1>2, <1>6, <2>1 DEF Increasing
  <2>2. CASE r \notin EndsOf(chan[d], c)
    BY <1>2, <1>4, <1>6, <2>2
  <2>3. QED
    BY <2>1, <2>2
<1>7. Increasing'
  <2>1. \A c \in Boards : \A i \in 1..Len(tsendq[c]) : \A r \in EndsOf(pending[c], c)' : r < tsendq[c][i]
    BY <1>2 DEF Increasing
  <2>2. QED
    BY <1>1, <1>5, <1>6, <2>1 DEF Increasing
<1>8. ASSUME NEW d \in Sinks, NEW i \in 1..Len(chan'[d]), NEW j \in 1..Len(chan'[d]),
             chan'[d][i].type = "TSEND", chan'[d][j].type = "TSEND", i < j
      PROVE  /\ chan'[d][i].round <= chan'[d][j].round
             /\ chan'[d][i].src = chan'[d][j].src => chan'[d][i].round < chan'[d][j].round
  <2>1. chan[d] \in Seq(Pkts)
    BY DEF Typed
  <2>2. CASE d \notin PacketDests(m)
    BY <1>1, <1>8, <2>2 DEF Sorted
  <2>3. CASE d \in PacketDests(m)
    <3>0. chan'[d] = Append(chan[d], m)
      BY <1>1, <2>3
    <3>1. /\ i \in 1..Len(chan[d]) /\ chan'[d][i] = chan[d][i]
          /\ \/ j \in 1..Len(chan[d]) /\ chan'[d][j] = chan[d][j]
             \/ chan'[d][j] = m
      BY <1>1, <1>8, <2>1, <3>0
    <3>1a. CASE j \in 1..Len(chan[d]) /\ chan'[d][j] = chan[d][j]
      BY <1>8, <3>1, <3>1a DEF Sorted
    <3>1b. CASE chan'[d][j] = m
      <4>2. chan[d][i].src \in Boards /\ chan[d][i].src # d
        <5>1. chan[d][i] \in Pkts
          BY <2>1, <3>1
        <5>2. QED
          BY <3>1, <5>1 DEF Addressed, Pkts, Ends, Axons
      <4>3. chan[d][i].round \in EndsOf(chan[d], chan[d][i].src)
        BY <1>8, <3>1 DEF EndsOf
      <4>4. m.round \in Waiting(b)
        BY <1>3, <1>8, <3>1b
      <4>5. chan[d][i].round <= m.round
        BY <4>2, <4>3, <4>4, EndsSettled
      <4>6. chan[d][i].src = b => chan[d][i].round < m.round
        BY <4>2, <4>3, <4>4, <1>1 DEF Increasing
      <4>7. QED
        BY <1>1, <3>1, <3>1b, <4>5, <4>6
    <3>2. QED
      BY <3>1, <3>1a, <3>1b
  <2>4. QED
    BY <2>2, <2>3
<1>9. Sorted'
  BY <1>8 DEF Sorted
<1>10. QED
  BY <1>7, <1>9

LEMMA TakenOrder ==
  ASSUME Queues, NEW d \in Sinks, TakenFrom(d), UNCHANGED tsendq
  PROVE  (Increasing /\ Sorted)'
<1> USE DEF Queues
<1>1. /\ chan[d] \in Seq(Pkts) /\ chan[d] # <<>> /\ chan'[d] = Tail(chan[d])
      /\ pending' = pending /\ tsendq' = tsendq
      /\ \A e \in Sinks \ {d} : chan'[e] = chan[e]
  BY DEF Typed, TakenFrom
<1>2. /\ Len(chan[d]) \in Nat \ {0} /\ Len(chan'[d]) = Len(chan[d]) - 1
      /\ \A i \in 1..Len(chan'[d]) : i + 1 \in 1..Len(chan[d]) /\ chan'[d][i] = chan[d][i + 1]
  BY <1>1
<1>3. \A c : Waiting(c)' = Waiting(c) /\ EndsOf(pending[c], c)' = EndsOf(pending[c], c)
  BY <1>1 DEF Waiting, EndsOf
<1>4. ASSUME NEW e \in Sinks, NEW c \in Boards PROVE EndsOf(chan[e], c)' \subseteq EndsOf(chan[e], c)
  <2>1. EndsOf(chan[e], c)' = EndsOf(chan'[e], c)
    BY DEF EndsOf
  <2>2. CASE e = d
    BY <1>1, <2>1, <2>2, EndsOfTail
  <2>3. CASE e # d
    BY <1>1, <2>1, <2>3
  <2>4. QED
    BY <2>2, <2>3
<1>5. Increasing'
  BY <1>1, <1>3, <1>4 DEF Increasing
<1>6. ASSUME NEW e \in Sinks, NEW i \in 1..Len(chan'[e]), NEW j \in 1..Len(chan'[e]),
             chan'[e][i].type = "TSEND", chan'[e][j].type = "TSEND", i < j
      PROVE  /\ chan'[e][i].round <= chan'[e][j].round
             /\ chan'[e][i].src = chan'[e][j].src => chan'[e][i].round < chan'[e][j].round
  <2>1. CASE e # d
    BY <1>1, <1>6, <2>1 DEF Sorted
  <2>2. CASE e = d
    <3>1. /\ i + 1 \in 1..Len(chan[d]) /\ chan'[d][i] = chan[d][i + 1]
          /\ j + 1 \in 1..Len(chan[d]) /\ chan'[d][j] = chan[d][j + 1]
          /\ i + 1 < j + 1
      BY <1>2, <1>6, <2>2
    <3>2. QED
      BY <1>6, <2>2, <3>1 DEF Sorted
  <2>3. QED
    BY <2>1, <2>2
<1>7. Sorted'
  BY <1>6 DEF Sorted
<1>8. QED
  BY <1>5, <1>7

\* A board that announces an end adds it to what is under way to the others.
LEMMA EndingUnder ==
  ASSUME Typed, NEW b \in Boards, Ending(b), NEW c \in Boards,
         UNCHANGED <<pending, chan>>,
         tsendq' = [tsendq EXCEPT ![b] = Append(@, cur_timestep[b])]
  PROVE  /\ Waiting(c)' = Waiting(c) \union (IF c = b THEN {cur_timestep[b]} ELSE {})
         /\ \A d \in Sinks :
              Under(d, c)' = Under(d, c)
                             \union (IF c = b /\ d # b THEN {cur_timestep[b]} ELSE {})
<1>1. tsendq[b] \in Seq(Nat) /\ cur_timestep[b] \in Nat
  BY DEF Typed
<1>2. EndsOf(pending[c], c)' = EndsOf(pending[c], c)
  BY DEF EndsOf
<1>3. \A d \in Sinks : EndsOf(chan[d], c)' = EndsOf(chan[d], c)
  BY DEF EndsOf
<1>4. Waiting(c)' = Waiting(c) \union (IF c = b THEN {cur_timestep[b]} ELSE {})
  <2>1. CASE c # b
    BY <1>2, <2>1 DEF Waiting, Typed
  <2>2. CASE c = b
    <3>1. tsendq'[b] = Append(tsendq[b], cur_timestep[b])
      BY DEF Typed
    <3>2. /\ Len(tsendq'[b]) = Len(tsendq[b]) + 1 /\ Len(tsendq[b]) \in Nat
          /\ tsendq'[b][Len(tsendq[b]) + 1] = cur_timestep[b]
          /\ \A i \in 1..Len(tsendq[b]) : tsendq'[b][i] = tsendq[b][i]
      BY <1>1, <3>1
    <3>3. \A i : i \in 1..Len(tsendq'[b]) <=> i \in 1..Len(tsendq[b]) \/ i = Len(tsendq[b]) + 1
      BY <3>2
    <3>4. {tsendq'[b][i] : i \in 1..Len(tsendq'[b])}
            = {tsendq[b][i] : i \in 1..Len(tsendq[b])} \union {cur_timestep[b]}
      BY <3>2, <3>3
    <3>5. Waiting(b)' = EndsOf(pending[b], b)' \union {tsendq'[b][i] : i \in 1..Len(tsendq'[b])}
      BY DEF Waiting
    <3>6. EndsOf(pending[b], b)' = EndsOf(pending[b], b)
      BY DEF EndsOf
    <3>7. Waiting(b)' = Waiting(b) \union {cur_timestep[b]}
      BY <3>4, <3>5, <3>6 DEF Waiting
    <3>8. QED
      BY <2>2, <3>7
  <2>3. QED
    BY <2>1, <2>2
<1>5. QED
  BY <1>3, <1>4 DEF Under

LEMMA EndingOrder ==
  ASSUME Queues, Contiguous, NEW b \in Boards, Ending(b), UNCHANGED <<pending, chan>>,
         tsendq' = [tsendq EXCEPT ![b] = Append(@, cur_timestep[b])]
  PROVE  (Increasing /\ Sorted)'
<1> USE DEF Queues
<1>1. cur_timestep[b] \in Nat /\ done[b] = cur_timestep[b] /\ tsendq[b] \in Seq(Nat)
  BY DEF Typed, Ending, Finishing, done
<1>2. ASSUME NEW d \in Sinks \ {b}, NEW r \in EndsOf(chan[d], b) PROVE r < cur_timestep[b]
  <2>1. r \in Under(d, b) /\ d \in Sinks
    BY <1>2 DEF Under
  <2>2. QED
    BY <1>1, <2>1 DEF Contiguous
<1>3. ASSUME NEW r \in Waiting(b) PROVE r < cur_timestep[b]
  <2>1. r \in Under(Reporter, b) /\ Reporter \in Sinks
    BY BoardAssumption DEF Under, Sinks
  <2>2. QED
    BY <1>1, <2>1 DEF Contiguous
<1>4. \A c \in Boards : Waiting(c)' = Waiting(c) \union (IF c = b THEN {cur_timestep[b]} ELSE {})
  BY EndingUnder
<1>5. Sorted'
  BY DEF Sorted
<1>6. /\ \A c : EndsOf(pending[c], c)' = EndsOf(pending[c], c)
      /\ \A d, c : EndsOf(chan[d], c)' = EndsOf(chan[d], c)
  BY DEF EndsOf
<1>7. \A c \in Boards \ {b} : tsendq'[c] = tsendq[c]
  BY DEF Typed
<1>8. \A i \in 1..Len(tsendq'[b]) :
        \/ i \in 1..Len(tsendq[b]) /\ tsendq'[b][i] = tsendq[b][i] /\ tsendq[b][i] \in Waiting(b)
        \/ i = Len(tsendq[b]) + 1 /\ tsendq'[b][i] = cur_timestep[b]
  BY <1>1 DEF Typed, Waiting
<1>9. ASSUME NEW c \in Boards, NEW i \in 1..Len(tsendq'[c]), NEW j \in 1..Len(tsendq'[c]), i < j
      PROVE  tsendq'[c][i] < tsendq'[c][j]
  <2>1. CASE c # b
    BY <1>7, <1>9, <2>1 DEF Increasing
  <2>2. CASE c = b
    <3>1. i \in 1..Len(tsendq[b]) /\ tsendq'[b][i] = tsendq[b][i] /\ tsendq[b][i] \in Waiting(b)
      BY <1>1, <1>8, <1>9, <2>2
    <3>2. QED
      BY <1>3, <1>8, <1>9, <2>2, <3>1 DEF Increasing
  <2>3. QED
    BY <2>1, <2>2
<1>10. ASSUME NEW c \in Boards, NEW i \in 1..Len(tsendq'[c]), NEW r \in EndsOf(pending[c], c)
       PROVE  r < tsendq'[c][i]
  <2>1. CASE c # b
    BY <1>7, <1>10, <2>1 DEF Increasing
  <2>2. CASE c = b
    <3>1. r \in Waiting(b)
      BY <1>10, <2>2 DEF Waiting
    <3>2. QED
      BY <1>3, <1>8, <1>10, <2>2, <3>1 DEF Increasing
  <2>3. QED
    BY <2>1, <2>2
<1>11. ASSUME NEW c \in Boards, NEW d \in Sinks \ {c}, NEW r \in EndsOf(chan[d], c),
              NEW s \in Waiting(c)'
       PROVE  r < s
  BY <1>2, <1>4, <1>11 DEF Increasing
<1>12. Increasing'
  BY <1>6, <1>9, <1>10, <1>11 DEF Increasing
<1>13. QED
  BY <1>5, <1>12

-----------------------------------------------------------------------------
(* The counting *)

Barrier == Contiguous /\ NotPassed /\ Gate /\ Counts /\ Reports

\* A step that leaves what is under way and the counters alone, leaves what
\* they mean alone.
LEMMA BarrierSame ==
  ASSUME Barrier, \A d \in Sinks, b \in Boards : Under(d, b)' = Under(d, b),
         UNCHANGED <<cur_timestep, is_end, end_counter, remote, rep_counter, rep_timestep>>
  PROVE  Barrier'
<1>1. done' = done
  BY DEF done
<1>2. \A d \in Sinks : \A n : Received(d, n)' = Received(d, n)
  BY <1>1 DEF Received
<1>3. Boards \subseteq Sinks /\ Reporter \in Sinks
  BY DEF Sinks
<1>4. Contiguous' /\ NotPassed' /\ Gate'
  BY <1>1, <1>3 DEF Barrier, Contiguous, NotPassed, Gate
<1>5. Counts'
  BY <1>2, <1>3 DEF Barrier, Counts
<1>6. Reports'
  BY <1>1, <1>2, <1>3 DEF Barrier, Reports
<1>7. QED
  BY <1>4, <1>5, <1>6 DEF Barrier

\* What comes out of a queue of the router is the oldest end that is under
\* way to it, and everyone has reached its timestep.
LEMMA HeadOldest ==
  ASSUME Queues, Contiguous, NotPassed, Gate, NEW d \in Sinks, chan[d] # <<>>,
         Head(chan[d]).type = "TSEND"
  PROVE  LET m == Head(chan[d])
         IN /\ m.src \in Boards \ {d} /\ m.round \in Under(d, m.src)
            /\ m.round \in Nat /\ m.round < done[m.src]
            /\ \A c \in Boards : done[c] >= m.round
            /\ \A c \in Boards : \A s \in Under(d, c) : s \in Nat /\ s >= m.round
<1> DEFINE m == Head(chan[d])
<1> USE DEF Queues
<1>1. chan[d] \in Seq(Pkts) /\ chan[d] # <<>>
  BY DEF Typed
<1>2. m = chan[d][1] /\ 1 \in 1..Len(chan[d]) /\ m \in Pkts /\ m.src # d
  <2>1. m = chan[d][1] /\ 1 \in 1..Len(chan[d]) /\ chan[d][1] \in Pkts
    BY <1>1
  <2>2. QED
    BY <2>1 DEF Addressed
<1>3. m.src \in Boards \ {d} /\ m.round \in Nat
  BY <1>2 DEF Pkts, Ends, Axons
<1>4. m.round \in EndsOf(chan[d], m.src) /\ m.round \in Under(d, m.src)
  BY <1>2, <1>3 DEF EndsOf, Under
<1>5. m.round < done[m.src]
  BY <1>3, <1>4 DEF Contiguous
<1>6. m.round <= cur_timestep[m.src]
  BY <1>3, <1>5, DoneType
<1>7. \A c \in Boards : done[c] >= m.round
  BY <1>3, <1>6, DoneType DEF Gate
<1>8. ASSUME NEW c \in Boards, NEW s \in Under(d, c) PROVE s \in Nat /\ s >= m.round
  <2>1. CASE s \in EndsOf(chan[d], c)
    <3>1. PICK i \in 1..Len(chan[d]) :
            chan[d][i].type = "TSEND" /\ chan[d][i].src = c /\ chan[d][i].round = s
      BY <2>1 DEF EndsOf
    <3>2. s \in Nat
      BY <1>1, <2>1, EndsOfType
    <3>3. QED
      BY <1>2, <1>3, <3>1, <3>2 DEF Sorted
  <2>2. CASE s \in Waiting(c)
    <3>1. s \in Nat
      <4>1. pending[c] \in Seq(Pkts) /\ tsendq[c] \in Seq(Nat)
        BY DEF Typed
      <4>2. QED
        BY <2>2, <4>1, EndsOfType DEF Waiting
    <3>2. CASE c = m.src
      <4>1. \A t \in EndsOf(chan[d], m.src), u \in Waiting(m.src) : t < u
        BY <1>3 DEF Increasing
      <4>2. m.round < s
        BY <1>4, <2>2, <3>2, <4>1
      <4>3. QED
        BY <1>3, <3>1, <4>2
    <3>3. CASE c # m.src
      <4>1. s \in Under(m.src, c)
        BY <2>2, <3>3 DEF Under
      <4>2. cur_timestep[m.src] <= s
        BY <1>3, <4>1 DEF NotPassed
      <4>3. QED
        BY <1>3, <1>6, <3>1, <4>2, DoneType
    <3>4. QED
      BY <3>2, <3>3
  <2>3. QED
    BY <1>8, <2>1, <2>2 DEF Under
<1>9. QED
  BY <1>3, <1>4, <1>5, <1>7, <1>8

LEMMA UnderType ==
  ASSUME Typed, NEW d \in Sinks, NEW b \in Boards
  PROVE  Under(d, b) \subseteq Nat
<1>1. pending[b] \in Seq(Pkts) /\ tsendq[b] \in Seq(Nat) /\ chan[d] \in Seq(Pkts)
  BY DEF Typed
<1>2. EndsOf(pending[b], b) \subseteq Nat /\ EndsOf(chan[d], b) \subseteq Nat
  BY <1>1, EndsOfType
<1>3. QED
  BY <1>1, <1>2 DEF Under, Waiting

LEMMA ReceivedDecreasing ==
  ASSUME Typed, NEW d \in Sinks, NEW n \in Nat
  PROVE  Received(d, n + 1) \subseteq Received(d, n) /\ Received(d, n) \subseteq Boards
<1>1. SUFFICES ASSUME NEW b \in Boards, done[b] > n + 1, \A r \in Under(d, b) : r > n + 1
               PROVE  done[b] > n /\ \A r \in Under(d, b) : r > n
  BY DEF Received
<1>2. Under(d, b) \subseteq Nat
  BY UnderType
<1>3. done[b] \in Nat
  BY DoneType
<1>4. QED
  BY <1>1, <1>2, <1>3

\* Taking a packet from a queue keeps the ends that are under way in order.
LEMMA TakenBarrier ==
  ASSUME Queues, Contiguous, NotPassed, Gate, NEW d \in Sinks, TakenFrom(d),
         UNCHANGED <<tsendq, cur_timestep, is_end>>
  PROVE  /\ Contiguous' /\ Gate'
         /\ \A e \in Boards, b \in Boards : \A r \in Under(e, b)' : cur_timestep[e]' <= r
         /\ \A b \in Boards : \A r \in Under(Reporter, b)' : rep_timestep <= r
         /\ \A b \in Boards : Under(d, b)' \subseteq Nat
<1>1. done' = done
  BY DEF done
<1>2. ASSUME NEW e \in Sinks, NEW b \in Boards
      PROVE  Under(e, b)' \subseteq Under(e, b)
  BY TakenUnder, Zenon
<1>3. ASSUME NEW e \in Sinks, NEW b \in Boards, NEW r \in Under(e, b)'
      PROVE  r < done[b] /\ \A s \in r..(done[b] - 1) : s \in Under(e, b)'
  <2>1. r \in Under(e, b)
    BY <1>2, <1>3
  <2>2. r < done[b] /\ \A s \in r..(done[b] - 1) : s \in Under(e, b)
    BY <2>1 DEF Contiguous
  <2>3. CASE e # d
    BY <2>2, <2>3, TakenUnder
  <2>4. CASE e = d
    <3>1. CASE Head(chan[d]).type = "TSEND" /\ Head(chan[d]).src = b
      <4>1. /\ Under(d, b) = Under(d, b)' \union {Head(chan[d]).round}
            /\ \A s \in Under(d, b)' : Head(chan[d]).round < s
        BY <3>1, TakenUnder
      <4>2. Head(chan[d]).round \in Nat
        BY <3>1, HeadOldest DEF TakenFrom
      <4>3. Head(chan[d]).round < r /\ r \in Int
        <5>1. Under(d, b) \subseteq Int
          BY <3>1, HeadOldest DEF TakenFrom
        <5>2. QED
          BY <1>3, <2>1, <2>4, <4>1, <5>1
      <4>4. ASSUME NEW s \in r..(done[b] - 1) PROVE s \in Under(d, b)'
        BY <2>2, <2>4, <4>1, <4>2, <4>3, DoneType DEF Queues
      <4>5. QED
        BY <2>2, <2>4, <4>4
    <3>2. CASE ~(Head(chan[d]).type = "TSEND" /\ Head(chan[d]).src = b)
      <4>1. Under(d, b)' = Under(d, b)
        BY <3>2, TakenUnder
      <4>2. QED
        BY <2>2, <2>4, <4>1
    <3>3. QED
      BY <3>1, <3>2
  <2>5. QED
    BY <2>3, <2>4
<1>4. Contiguous'
  BY <1>1, <1>3 DEF Contiguous
<1>5. Gate'
  BY <1>1 DEF Gate
<1>6. Boards \subseteq Sinks /\ Reporter \in Sinks
  BY DEF Sinks
<1>7. \A b \in Boards : Under(d, b)' \subseteq Nat
  BY <1>2, UnderType DEF Queues
<1>8. QED
  BY <1>2, <1>4, <1>5, <1>6, <1>7 DEF NotPassed

\* Taking an end adds its board to those that are received for its timestep,
\* and changes nothing else.
LEMMA TakenReceived ==
  ASSUME Queues, Contiguous, NotPassed, Gate, NEW d \in Sinks, TakenFrom(d),
         UNCHANGED <<tsendq, cur_timestep, is_end>>, NEW n \in Nat
  PROVE  LET m == Head(chan[d])
         IN /\ \A e \in Sinks \ {d} : Received(e, n)' = Received(e, n)
            /\ m.type # "TSEND" => Received(d, n)' = Received(d, n)
            /\ m.type = "TSEND" =>
                 /\ n = m.round => Received(d, n)' = Received(d, n) \union {m.src}
                 /\ n # m.round => Received(d, n)' = Received(d, n)
                 /\ m.src \notin Received(d, m.round)
                 /\ n < m.round => Received(d, n) = Boards
<1> DEFINE m == Head(chan[d])
<1>1. done' = done
  BY DEF done
<1>2. \A e \in Sinks \ {d} : Received(e, n)' = Received(e, n)
  BY <1>1, TakenUnder, Zenon DEF Received
<1>3. ASSUME m.type # "TSEND" PROVE Received(d, n)' = Received(d, n)
  <2>1. \A c \in Boards : Under(d, c)' = Under(d, c)
    BY <1>3, TakenUnder
  <2>2. QED
    BY <1>1, <2>1 DEF Received
<1>4. ASSUME m.type = "TSEND"
      PROVE  /\ n = m.round => Received(d, n)' = Received(d, n) \union {m.src}
             /\ n # m.round => Received(d, n)' = Received(d, n)
             /\ m.src \notin Received(d, m.round)
             /\ n < m.round => Received(d, n) = Boards
  <2>1. /\ m.src \in Boards \ {d} /\ m.round \in Under(d, m.src)
        /\ m.round \in Nat /\ m.round < done[m.src]
        /\ \A c \in Boards : done[c] >= m.round
        /\ \A c \in Boards : \A s \in Under(d, c) : s \in Nat /\ s >= m.round
    BY <1>4, HeadOldest DEF TakenFrom
  <2>2. PICK b \in Boards \ {d}, r \in Nat : b = m.src /\ r = m.round
    BY <2>1
  <2>3. done \in [Boards -> Nat]
    BY DoneType DEF Queues
  <2> HIDE DEF m
  <2>4. b \notin Received(d, r) /\ r \in Under(d, b) /\ r < done[b]
    BY <2>1, <2>2 DEF Received
  <2>5. ASSUME n < r PROVE Received(d, n) = Boards
    BY <2>1, <2>2, <2>3, <2>5 DEF Received
  <2>6. /\ Under(d, b) = Under(d, b)' \union {r}
        /\ \A s \in Under(d, b)' : r < s
    BY <1>4, <2>2, TakenUnder DEF m
  <2>7. ASSUME NEW c \in Boards \ {b} PROVE Under(d, c)' = Under(d, c)
    BY <2>2, <2>7, TakenUnder DEF m
  <2>8. \A c : c \in Received(d, n)' <=> c \in Boards /\ done[c] > n /\ \A s \in Under(d, c)' : s > n
    BY <1>1 DEF Received
  <2>9. \A c \in Boards \ {b} : c \in Received(d, n)' <=> c \in Received(d, n)
    BY <2>7, <2>8 DEF Received
  <2>10. b \in Received(d, n)' <=> b \in Received(d, n) \/ n = r
    <3>1. CASE n < r
      <4>1. b \in Received(d, n)
        BY <2>5, <3>1
      <4>2. \A s \in Under(d, b)' : s > n
        BY <2>1, <2>6, <3>1
      <4>3. QED
        BY <2>3, <2>4, <2>8, <3>1, <4>1, <4>2
    <3>2. CASE n = r
      BY <2>4, <2>6, <2>8, <3>2
    <3>3. CASE n > r
      <4>1. b \notin Received(d, n)
        BY <2>4, <3>3 DEF Received
      <4>2. ASSUME n < done[b] PROVE n \in Under(d, b)'
        <5>1. n \in r..(done[b] - 1)
          BY <2>3, <3>3, <4>2
        <5>2. n \in Under(d, b)
          BY <2>4, <5>1 DEF Contiguous
        <5>3. QED
          BY <2>6, <3>3, <5>2
      <4>3. b \notin Received(d, n)'
        BY <2>3, <2>8, <4>2
      <4>4. QED
        BY <3>3, <4>1, <4>3
    <3>4. QED
      BY <3>1, <3>2, <3>3
  <2>11. Received(d, n)' \subseteq Boards /\ Received(d, n) \subseteq Boards
    BY DEF Received
  <2>12. QED
    BY <2>2, <2>4, <2>5, <2>9, <2>10, <2>11
<1>5. QED
  BY <1>2, <1>3, <1>4

LEMMA DecoderBarrier ==
  ASSUME Queues, Barrier, NEW d \in Boards, PacketDecoder(d)
  PROVE  Barrier'
<1> USE DEF Barrier
<1>1. /\ TakenFrom(d) /\ d \in Sinks /\ Boards \subseteq Sinks
      /\ Reporter \in Sinks /\ Reporter # d
      /\ UNCHANGED <<tsendq, cur_timestep, is_end, end_counter, rep_counter, rep_timestep>>
      /\ UNCHANGED done
  BY BoardAssumption DEF PacketDecoder, Net!Take, TakenFrom, Sinks, tsm, rep, done
<1>2. Contiguous' /\ Gate' /\ NotPassed'
  BY <1>1, TakenBarrier DEF NotPassed
<1>3. \A n \in Nat : \A e \in Sinks \ {d} : Received(e, n)' = Received(e, n)
  BY <1>1, TakenReceived
<1>4. Typed /\ Typed' /\ rep_timestep \in Nat /\ \A e \in Boards : cur_timestep[e] \in Nat
  BY DecoderTyped DEF Queues, Typed
<1>5. Reports'
  BY <1>1, <1>3, <1>4 DEF Reports
<1>6. ASSUME NEW e \in Boards \ {d}
      PROVE  /\ end_counter'[e] + remote'[e]
                   = Cardinality(Received(e, cur_timestep[e]))'
                     + Cardinality(Received(e, cur_timestep[e] + 1))'
             /\ Received(e, cur_timestep[e] + 1)' # {} => Received(e, cur_timestep[e])' = Boards
  <2>1. remote'[e] = remote[e]
    BY <1>4 DEF PacketDecoder, Typed
  <2>2. \A n \in Nat : Received(e, n)' = Received(e, n)
    BY <1>1, <1>3
  <2>3. QED
    BY <1>1, <1>4, <2>1, <2>2 DEF Counts
<1> DEFINE t == cur_timestep[d]
<1>7. /\ end_counter'[d] + remote'[d]
            = Cardinality(Received(d, cur_timestep[d]))' + Cardinality(Received(d, cur_timestep[d] + 1))'
      /\ Received(d, cur_timestep[d] + 1)' # {} => Received(d, cur_timestep[d])' = Boards
  <2>1. PICK n \in Nat : n = cur_timestep[d]
    BY <1>4
  <2>2. /\ end_counter[d] + remote[d]
              = Cardinality(Received(d, n)) + Cardinality(Received(d, n + 1))
        /\ Received(d, n + 1) # {} => Received(d, n) = Boards
    BY <2>1 DEF Counts
  <2>3. end_counter'[d] = end_counter[d] /\ end_counter[d] \in Nat /\ remote[d] \in Nat
    BY <1>1, <1>4 DEF Typed
  <2>4. SUFFICES /\ end_counter[d] + remote'[d]
                      = Cardinality(Received(d, n)') + Cardinality(Received(d, n + 1)')
                 /\ Received(d, n + 1)' # {} => Received(d, n)' = Boards
    BY <1>1, <2>1, <2>3
  <2>5. CASE Head(chan[d]).type # "TSEND"
    <3>1. remote' = remote
      BY <2>5 DEF PacketDecoder
    <3>2. Received(d, n)' = Received(d, n) /\ Received(d, n + 1)' = Received(d, n + 1)
      BY <1>1, <2>5, TakenReceived
    <3>3. QED
      BY <2>2, <3>1, <3>2
  <2>6. CASE Head(chan[d]).type = "TSEND"
    <3>1. remote'[d] = remote[d] + 1
      BY <1>4, <2>6 DEF PacketDecoder, Typed
    <3>2. PICK b \in Boards, r \in Nat : b = Head(chan[d]).src /\ r = Head(chan[d]).round
      BY <1>1, <2>6, HeadOldest DEF TakenFrom
    <3>3. r \in Under(d, b) /\ r <= done[d]
      BY <1>1, <2>6, <3>2, HeadOldest DEF TakenFrom
    <3>4. r \in {n, n + 1}
      BY <1>4, <2>1, <3>3, DoneType DEF NotPassed
    <3>5. /\ Received(d, r)' = Received(d, r) \union {b}
          /\ \A k \in Nat \ {r} : Received(d, k)' = Received(d, k)
          /\ b \notin Received(d, r)
          /\ \A k \in Nat : k < r => Received(d, k) = Boards
      BY <1>1, <2>6, <3>2, TakenReceived
    <3>6. ASSUME NEW k \in Nat
          PROVE  /\ Cardinality(Received(d, k)) \in Nat
                 /\ b \notin Received(d, k) =>
                      Cardinality(Received(d, k) \union {b}) = Cardinality(Received(d, k)) + 1
      <4>1. IsFiniteSet(Received(d, k))
        BY BoardsFinite DEF Received
      <4>2. QED
        BY <4>1, FS_CardinalityType, FS_AddElement
    <3>7. CASE r = n
      <4>1. Received(d, n + 1) = {}
        BY <2>2, <3>5, <3>7
      <4>2. Received(d, n)' = Received(d, n) \union {b} /\ Received(d, n + 1)' = Received(d, n + 1)
        BY <3>5, <3>7
      <4>3. Cardinality(Received(d, n)') = Cardinality(Received(d, n)) + 1
        BY <3>5, <3>6, <3>7, <4>2
      <4>4. /\ Cardinality(Received(d, n)) \in Nat /\ Cardinality(Received(d, n + 1)) \in Nat
            /\ Cardinality(Received(d, n + 1)') = Cardinality(Received(d, n + 1))
        <5>1. n + 1 \in Nat
          OBVIOUS
        <5>2. Cardinality(Received(d, n)) \in Nat /\ Cardinality(Received(d, n + 1)) \in Nat
          BY <3>6, <5>1
        <5>3. Cardinality(Received(d, n + 1)') = Cardinality(Received(d, n + 1))
          BY <4>2, Zenon
        <5>4. QED
          BY <5>2, <5>3
      <4>5. Received(d, n + 1)' = {}
        BY <4>1, <4>2
      <4>6. QED
        BY <2>2, <2>3, <3>1, <4>3, <4>4, <4>5
    <3>8. CASE r = n + 1
      <4>1. Received(d, n) = Boards
        BY <3>5, <3>8
      <4>2. Received(d, n)' = Received(d, n) /\ Received(d, n + 1)' = Received(d, n + 1) \union {b}
        BY <3>5, <3>8
      <4>3. QED
        BY <2>2, <2>3, <3>1, <3>5, <3>6, <3>8, <4>1, <4>2
    <3>9. QED
      BY <3>4, <3>7, <3>8
  <2>7. QED
    BY <2>5, <2>6
<1>8. Counts'
  BY <1>6, <1>7 DEF Counts
<1>9. QED
  BY <1>2, <1>5, <1>8

LEMMA ReporterBarrier ==
  ASSUME Queues, Barrier, TimestepReporter
  PROVE  Barrier'
<1> USE DEF Barrier
<1>1. /\ TakenFrom(Reporter) /\ Boards \subseteq Sinks /\ Reporter \in Sinks /\ Reporter \notin Boards
      /\ UNCHANGED <<tsendq, cur_timestep, is_end, end_counter, remote>>
      /\ UNCHANGED done
  BY BoardAssumption DEF TimestepReporter, Net!Take, TakenFrom, Sinks, tsm, done
<1>2. /\ Contiguous' /\ Gate'
      /\ \A e \in Boards, b \in Boards : \A r \in Under(e, b)' : cur_timestep[e]' <= r
      /\ \A b \in Boards : \A r \in Under(Reporter, b)' : r \in Nat /\ rep_timestep <= r
  BY <1>1, TakenBarrier
<1>3. \A n \in Nat : \A e \in Boards : Received(e, n)' = Received(e, n)
  BY <1>1, TakenReceived
<1>4. /\ Typed /\ rep_timestep \in Nat /\ rep_counter \in Nat
      /\ \A e \in Boards : cur_timestep[e] \in Nat
  BY DEF Queues, Typed
<1>5. Counts'
  BY <1>1, <1>3, <1>4 DEF Counts
<1>6. PICK n \in Nat : n = rep_timestep
  BY <1>4
<1>7. /\ rep_counter = Cardinality(Received(Reporter, n)) /\ Received(Reporter, n) # Boards
      /\ Received(Reporter, n + 1) = {} /\ \A b \in Boards : n <= done[b]
  BY <1>6 DEF Reports
<1>8. CASE Head(chan[Reporter]).type # "TSEND"
  <2>1. rep_counter' = rep_counter /\ rep_timestep' = rep_timestep
    <3>1. rep_counter # num_boards
      <4>1. Received(Reporter, n) \in SUBSET Boards
        BY DEF Received
      <4>2. QED
        BY <1>7, <4>1, BoardsFinite
    <3>2. QED
      BY <1>4, <1>8, <3>1 DEF TimestepReporter
  <2>2. \A k \in Nat : Received(Reporter, k)' = Received(Reporter, k)
    BY <1>1, <1>8, TakenReceived
  <2>3. Reports'
    BY <1>1, <1>6, <1>7, <2>1, <2>2 DEF Reports
  <2>4. QED
    BY <1>2, <1>5, <2>1, <2>3 DEF NotPassed
<1>9. CASE Head(chan[Reporter]).type = "TSEND"
  <2>1. PICK b \in Boards, r \in Nat : b = Head(chan[Reporter]).src /\ r = Head(chan[Reporter]).round
    BY <1>1, <1>9, HeadOldest DEF TakenFrom
  <2>2. r \in Under(Reporter, b)
    BY <1>1, <1>9, <2>1, HeadOldest DEF TakenFrom
  <2>3. /\ Received(Reporter, r)' = Received(Reporter, r) \union {b}
        /\ \A k \in Nat \ {r} : Received(Reporter, k)' = Received(Reporter, k)
        /\ b \notin Received(Reporter, r)
        /\ \A k \in Nat : k < r => Received(Reporter, k) = Boards
    BY <1>1, <1>9, <2>1, TakenReceived
  <2>4. r = n
    BY <1>6, <1>7, <2>2, <2>3 DEF NotPassed
  <2>5. Received(Reporter, n) \subseteq Boards /\ IsFiniteSet(Received(Reporter, n))
    BY BoardsFinite DEF Received
  <2>6. /\ Received(Reporter, n)' = Received(Reporter, n) \union {b}
        /\ Received(Reporter, n + 1)' = {}
        /\ Cardinality(Received(Reporter, n)') = rep_counter + 1
    <3>1. /\ Received(Reporter, n)' = Received(Reporter, n) \union {b}
          /\ Received(Reporter, n + 1)' = Received(Reporter, n + 1)
      BY <2>3, <2>4
    <3>2. QED
      BY <1>7, <2>3, <2>4, <2>5, <3>1, FS_AddElement
  <2>7. /\ rep_counter' = IF rep_counter + 1 = num_boards THEN 0 ELSE rep_counter + 1
        /\ rep_timestep' = IF rep_counter + 1 = num_boards THEN n + 1 ELSE n
    BY <1>6, <1>9 DEF TimestepReporter
  <2>8. Received(Reporter, n)' \in SUBSET Boards
    BY <2>5, <2>6
  <2>9. \A c : c \in Received(Reporter, n)'
                 <=> c \in Boards /\ done[c] > n /\ \A s \in Under(Reporter, c)' : s > n
    BY <1>1 DEF Received
  <2>10. Typed' /\ \A c \in Boards : done[c] \in Nat
    BY <1>4, ReporterTyped, DoneType DEF Queues
  <2>11. CASE rep_counter + 1 = num_boards
    <3>1. Received(Reporter, n)' = Boards
      BY <2>6, <2>8, <2>11, BoardsFinite
    <3>2. \A c \in Boards : n + 1 <= done[c] /\ \A s \in Under(Reporter, c)' : n + 1 <= s
      BY <1>2, <2>9, <2>10, <3>1
    <3>3. Received(Reporter, n + 2)' = {}
      <4>1. Received(Reporter, n + 2)' = Received(Reporter, n + 2)
        BY <2>3, <2>4
      <4>2. Received(Reporter, (n + 1) + 1) \subseteq Received(Reporter, n + 1)
        BY <1>1, <1>4, ReceivedDecreasing
      <4>3. QED
        BY <1>7, <4>1, <4>2
    <3>4. /\ rep_counter' = 0 /\ rep_timestep' = n + 1
      BY <2>7, <2>11
    <3>5. Reports'
      BY BoardAssumption, BoardsFinite, FS_EmptySet, <1>1, <2>6, <3>2, <3>3, <3>4 DEF Reports
    <3>6. NotPassed'
      BY <1>2, <3>2, <3>4 DEF NotPassed
    <3>7. QED
      BY <1>2, <1>5, <3>5, <3>6
  <2>12. CASE rep_counter + 1 # num_boards
    <3>1. rep_counter' = rep_counter + 1 /\ rep_timestep' = n
      BY <2>7, <2>12
    <3>2. Received(Reporter, n)' # Boards
      BY <2>6, <2>12 DEF num_boards
    <3>3. Reports'
      BY <1>1, <1>7, <2>6, <3>1, <3>2 DEF Reports
    <3>4. NotPassed'
      BY <1>2, <1>6, <3>1 DEF NotPassed
    <3>5. QED
      BY <1>2, <1>5, <3>3, <3>4
  <2>13. QED
    BY <2>11, <2>12
<1>10. QED
  BY <1>8, <1>9

\* A board that finds as many ends as there are boards has the ends of all
\* boards for its timestep, its own among them, whoever sent what it counted.
LEMMA FullCount ==
  ASSUME Queues, Barrier, NEW d \in Boards
  PROVE  /\ Ending(d) => d \notin Received(d, cur_timestep[d]) /\ done[d] = cur_timestep[d]
         /\ Counted(d) = num_boards =>
              /\ \A c \in Boards \ {d} : c \in Received(d, cur_timestep[d])
              /\ is_end[d] \/ Ending(d)
              /\ remote[d] - Got(d) = Cardinality(Received(d, cur_timestep[d] + 1))
<1> DEFINE A == Received(d, cur_timestep[d])
           B == Received(d, cur_timestep[d] + 1)
           A1 == IF Ending(d) THEN A \union {d} ELSE A
<1>1. /\ Typed /\ Got(d) \in {0, 1} /\ Got(d) <= remote[d]
      /\ remote[d] \in Nat /\ end_counter[d] \in Nat /\ cur_timestep[d] \in Nat
  BY DEF Queues, Typed, Got
<1>2. A \in SUBSET Boards /\ B \in SUBSET Boards /\ A1 \in SUBSET Boards
  BY DEF Received
<1>3. end_counter[d] + remote[d] = Cardinality(A) + Cardinality(B) /\ (B # {} => A = Boards)
  BY DEF Barrier, Counts
<1>4. d \in A <=> is_end[d]
  BY <1>1, DoneType DEF Received, Under
<1>5. Ending(d) => ~is_end[d] /\ d \notin A /\ done[d] = cur_timestep[d]
  BY <1>1, <1>4, DoneType DEF Ending, Finishing
<1>6. d \notin B
  BY <1>1, DoneType DEF Received, Under
<1>7. /\ Cardinality(A1) = Cardinality(A) + (IF Ending(d) THEN 1 ELSE 0)
      /\ Cardinality(A) \in Nat /\ Cardinality(B) \in Nat /\ Cardinality(A1) \in Nat
      /\ Cardinality(A) \in 0..num_boards /\ Cardinality(A1) \in 0..num_boards
      /\ Cardinality(A1) = num_boards => A1 = Boards
      /\ num_boards \in Nat \ {0}
  <2>1. /\ IsFiniteSet(A) /\ Cardinality(A) \in 0..num_boards /\ Cardinality(B) \in 0..num_boards
        /\ Cardinality(A1) \in 0..num_boards /\ num_boards \in Nat \ {0}
        /\ Cardinality(A1) = num_boards => A1 = Boards
    BY <1>2, BoardsFinite
  <2>2. d \notin A => Cardinality(A \union {d}) = Cardinality(A) + 1
    BY <2>1, FS_AddElement
  <2>3. CASE Ending(d)
    BY <1>5, <2>1, <2>2, <2>3
  <2>4. CASE ~Ending(d)
    BY <2>1, <2>4
  <2>5. QED
    BY <2>3, <2>4
<1>8. Counted(d) = end_counter[d] + Got(d) + (IF Ending(d) THEN 1 ELSE 0)
  BY DEF Counted
<1>9. Counted(d) \in Nat /\ Counted(d) <= Cardinality(A1) + Cardinality(B)
  BY <1>1, <1>3, <1>7, <1>8
<1>10. CASE B = {}
  <2>1. Cardinality(B) = 0
    BY <1>10, FS_EmptySet
  <2>2. Counted(d) <= Cardinality(A1)
    BY <1>7, <1>9, <2>1
  <2>3. Counted(d) = num_boards => A1 = Boards
    BY <1>7, <1>9, <2>2
  <2>4. Cardinality(A1) <= num_boards
    BY <1>7
  <2>5. Counted(d) = num_boards => remote[d] - Got(d) = 0
    BY <1>1, <1>3, <1>7, <1>8, <2>1, <2>4
  <2>6. QED
    BY <1>4, <1>5, <2>1, <2>3, <2>5
<1>11. CASE B # {}
  <2>1. A = Boards /\ is_end[d] /\ ~Ending(d)
    BY <1>3, <1>4, <1>5, <1>11
  <2>2. Cardinality(A) = num_boards
    BY <2>1 DEF num_boards
  <2>3. Counted(d) = num_boards => remote[d] - Got(d) = Cardinality(B)
    BY <1>1, <1>3, <1>7, <1>8, <2>1, <2>2
  <2>4. QED
    BY <1>5, <2>1, <2>3
<1>12. QED
  BY <1>10, <1>11

\* What TSManager does to the ends and to the timesteps of the boards: the
\* board is done with its timestep at the latest when it leaves it.
LEMMA TSManagerSteps ==
  ASSUME Queues, Barrier, NEW d \in Boards, TSManager(d), NEW n \in Nat, n = cur_timestep[d]
  PROVE  /\ UNCHANGED <<pending, chan, rep_counter, rep_timestep>>
         /\ \A c \in Boards \ {d} : /\ cur_timestep'[c] = cur_timestep[c]
                                    /\ is_end'[c] = is_end[c]
                                    /\ end_counter'[c] = end_counter[c]
                                    /\ remote'[c] = remote[c]
                                    /\ done'[c] = done[c]
         /\ cur_timestep'[d] = IF Flips(d) THEN n + 1 ELSE n
         /\ end_counter'[d] = IF Flips(d) THEN 0 ELSE Counted(d)
         /\ remote'[d] = remote[d] - Got(d)
         /\ done'[d] = IF Ending(d) THEN n + 1 ELSE done[d]
         /\ Flips(d) => done'[d] = n + 1
         /\ \A e \in Sinks, c \in Boards :
              Under(e, c)' = IF Ending(d) /\ c = d /\ e # d
                             THEN Under(e, c) \union {n} ELSE Under(e, c)
         /\ (Increasing /\ Sorted)'
<1>1. /\ Typed /\ Typed' /\ cur_timestep[d] \in Nat /\ end_counter[d] \in Nat
      /\ remote[d] \in Nat /\ is_end[d] \in BOOLEAN
  BY TSManagerTyped DEF Queues, Typed
<1>2. UNCHANGED <<pending, chan, rep_counter, rep_timestep>>
  BY DEF TSManager, net, rep
<1>3. /\ \A c \in Boards \ {d} : /\ cur_timestep'[c] = cur_timestep[c]
                                 /\ end_counter'[c] = end_counter[c]
                                 /\ remote'[c] = remote[c]
      /\ cur_timestep'[d] = IF Flips(d) THEN n + 1 ELSE n
      /\ end_counter'[d] = IF Flips(d) THEN 0 ELSE Counted(d)
      /\ remote'[d] = remote[d] - Got(d)
  BY <1>1 DEF TSManager, Typed
<1>4. /\ \A c \in Boards \ {d} : is_end'[c] = is_end[c]
      /\ is_end'[d] <=> (is_end[d] \/ Ending(d)) /\ ~Flips(d)
  BY <1>1, Zenon DEF TSManager, Typed
<1>5. Flips(d) => is_end[d] \/ Ending(d)
  BY FullCount DEF Flips
<1>6. Ending(d) => done[d] = n
  BY FullCount
<1>7. /\ done[d] = n + (IF is_end[d] THEN 1 ELSE 0)
      /\ done'[d] = cur_timestep'[d] + (IF is_end'[d] THEN 1 ELSE 0)
      /\ \A c \in Boards \ {d} : done'[c] = done[c]
  BY <1>3, <1>4 DEF done
<1>8. CASE Ending(d)
  <2>1. tsendq' = [tsendq EXCEPT ![d] = Append(@, cur_timestep[d])]
    BY <1>8 DEF TSManager
  <2>2. \A e \in Sinks, c \in Boards :
          Under(e, c)' = Under(e, c) \union (IF c = d /\ e # d THEN {n} ELSE {})
    <3>1. ASSUME NEW c \in Boards
          PROVE  \A e \in Sinks : Under(e, c)' = Under(e, c) \union
                                    (IF c = d /\ e # d THEN {cur_timestep[d]} ELSE {})
      BY <1>1, <1>2, <1>8, <2>1, EndingUnder
    <3>2. QED
      BY <3>1
  <2>3. (Increasing /\ Sorted)'
    BY <1>2, <1>8, <2>1, EndingOrder DEF Barrier
  <2>4. done'[d] = n + 1
    BY <1>3, <1>4, <1>7, <1>8
  <2>5. \A e \in Sinks, c \in Boards :
          Under(e, c)' = IF c = d /\ e # d THEN Under(e, c) \union {n} ELSE Under(e, c)
    BY <2>2
  <2>6. QED
    BY <1>2, <1>3, <1>4, <1>7, <1>8, <2>3, <2>4, <2>5
<1>9. CASE ~Ending(d)
  <2>1. tsendq' = tsendq
    BY <1>9 DEF TSManager
  <2>2. \A e, c : Under(e, c)' = Under(e, c)
    BY <1>2, <2>1, UnderSame
  <2>3. (Increasing /\ Sorted)'
    BY <1>2, <2>1, QueuesSame DEF Queues
  <2>4. done'[d] = done[d] /\ (Flips(d) => done'[d] = n + 1)
    BY <1>3, <1>4, <1>5, <1>7, <1>9
  <2>5. QED
    BY <1>2, <1>3, <1>4, <1>7, <1>9, <2>2, <2>3, <2>4
<1>10. QED
  BY <1>8, <1>9

\* What is received changes at the board only, which receives its own end.
LEMMA TSManagerReceived ==
  ASSUME Queues, Barrier, NEW d \in Boards, TSManager(d), NEW n \in Nat, n = cur_timestep[d],
         NEW k \in Nat
  PROVE  /\ \A e \in Sinks \ {d} : Received(e, k)' = Received(e, k)
         /\ Received(d, k)' = IF Ending(d) /\ k = n THEN Received(d, k) \union {d}
                              ELSE Received(d, k)
<1>1. /\ \A c \in Boards \ {d} : done'[c] = done[c]
      /\ done'[d] = IF Ending(d) THEN n + 1 ELSE done[d]
      /\ \A e \in Sinks, c \in Boards :
           Under(e, c)' = IF Ending(d) /\ c = d /\ e # d
                          THEN Under(e, c) \union {n} ELSE Under(e, c)
  BY TSManagerSteps
<1>2. Ending(d) => done[d] = n
  BY FullCount
<1>3. \A e, c : /\ c \in Received(e, k)'
                     <=> c \in Boards /\ done'[c] > k /\ \A r \in Under(e, c)' : r > k
                /\ c \in Received(e, k)
                     <=> c \in Boards /\ done[c] > k /\ \A r \in Under(e, c) : r > k
  BY DEF Received
<1>4. done[d] \in Nat /\ d \in Sinks
  BY DoneType DEF Queues, Sinks
<1>5. ASSUME NEW e \in Sinks \ {d}, NEW c \in Boards
      PROVE  c \in Received(e, k)' <=> c \in Received(e, k)
  <2>1. CASE Ending(d) /\ c = d
    <3>1. /\ done'[d] = n + 1 /\ done[d] = n /\ Under(e, d)' = Under(e, d) \union {n}
      BY <1>1, <1>2, <1>5, <2>1
    <3>2. d \in Received(e, k)' <=> n > k /\ \A r \in Under(e, d) : r > k
      BY <1>3, <3>1
    <3>3. QED
      BY <1>3, <2>1, <3>1, <3>2
  <2>2. CASE ~(Ending(d) /\ c = d)
    BY <1>1, <1>3, <1>5, <2>2
  <2>3. QED
    BY <2>1, <2>2
<1>6. ASSUME NEW c \in Boards
      PROVE  c \in Received(d, k)' <=> c \in Received(d, k) \/ (c = d /\ Ending(d) /\ k = n)
  <2>1. Under(d, c)' = Under(d, c)
    BY <1>1, <1>4
  <2>2. CASE Ending(d) /\ c = d
    <3>1. Under(d, d) = {} /\ Under(d, d)' = {}
      BY DEF Under
    <3>2. QED
      BY <1>1, <1>2, <1>3, <2>2, <3>1
  <2>3. CASE ~(Ending(d) /\ c = d)
    BY <1>1, <1>3, <2>1, <2>3
  <2>4. QED
    BY <2>2, <2>3
<1>7. \A e : Received(e, k)' \subseteq Boards /\ Received(e, k) \subseteq Boards
  BY DEF Received
<1>8. \A e \in Sinks \ {d} : Received(e, k)' = Received(e, k)
  BY <1>5, <1>7
<1>9. CASE Ending(d) /\ k = n
  <2>1. Received(d, k)' = Received(d, k) \union {d}
    BY <1>6, <1>7, <1>9
  <2>2. QED
    BY <1>8, <1>9, <2>1
<1>10. CASE ~(Ending(d) /\ k = n)
  <2>1. Received(d, k)' = Received(d, k)
    BY <1>6, <1>7, <1>10
  <2>2. QED
    BY <1>8, <1>10, <2>1
<1>11. QED
  BY <1>9, <1>10

LEMMA TSManagerBarrier ==
  ASSUME Queues, Barrier, NEW d \in Boards, TSManager(d)
  PROVE  Barrier'
<1> USE DEF Barrier
<1>1. PICK n \in Nat : n = cur_timestep[d]
  BY DEF Queues, Typed
<1>2. /\ UNCHANGED <<rep_counter, rep_timestep>>
      /\ \A c \in Boards \ {d} : /\ cur_timestep'[c] = cur_timestep[c]
                                 /\ end_counter'[c] = end_counter[c]
                                 /\ remote'[c] = remote[c]
                                 /\ done'[c] = done[c]
      /\ cur_timestep'[d] = IF Flips(d) THEN n + 1 ELSE n
      /\ done'[d] = IF Ending(d) THEN n + 1 ELSE done[d]
      /\ Flips(d) => done'[d] = n + 1
  BY <1>1, TSManagerSteps
<1>3. \A e \in Sinks, c \in Boards :
        Under(e, c)' = IF Ending(d) /\ c = d /\ e # d
                       THEN Under(e, c) \union {n} ELSE Under(e, c)
  BY <1>1, TSManagerSteps
<1>4. /\ \A k \in Nat, e \in Sinks \ {d} : Received(e, k)' = Received(e, k)
      /\ \A k \in Nat : k # n => Received(d, k)' = Received(d, k)
      /\ Received(d, n)' = IF Ending(d) THEN Received(d, n) \union {d} ELSE Received(d, n)
  BY <1>1, TSManagerReceived
<1>5. /\ Typed /\ rep_timestep \in Nat /\ \A c \in Boards : cur_timestep[c] \in Nat
      /\ \A c \in Boards : done[c] \in Nat /\ cur_timestep[c] <= done[c]
                             /\ done[c] <= cur_timestep[c] + 1
      /\ Boards \subseteq Sinks /\ Reporter \in Sinks /\ Reporter \notin Boards
      /\ \A e \in Sinks, c \in Boards : Under(e, c) \subseteq Nat
  BY BoardAssumption, DoneType, UnderType DEF Queues, Typed, Sinks
<1>6. Ending(d) => done[d] = n /\ d \notin Received(d, n)
  BY <1>1, FullCount
<1>7. Flips(d) => /\ \A c \in Boards \ {d} : c \in Received(d, n)
                  /\ is_end[d] \/ Ending(d)
                  /\ remote[d] - Got(d) = Cardinality(Received(d, n + 1))
  BY <1>1, FullCount DEF Flips
<1>8. \A c \in Boards : done'[c] \in Nat /\ done[c] <= done'[c]
  BY <1>2, <1>5, <1>6
<1>9. Contiguous'
  <2>1. SUFFICES ASSUME NEW e \in Sinks, NEW c \in Boards, NEW r \in Under(e, c)'
                 PROVE  r < done'[c] /\ \A s \in r..(done'[c] - 1) : s \in Under(e, c)'
    BY DEF Contiguous
  <2>2. CASE Ending(d) /\ c = d /\ e # d
    <3>1. Under(e, d)' = Under(e, d) \union {n} /\ done[d] = n /\ done'[d] = n + 1
      BY <1>2, <1>3, <1>6, <2>2
    <3>2. CASE r = n
      BY <2>2, <3>1, <3>2
    <3>3. CASE r # n
      <4>1. r \in Under(e, d) /\ r \in Nat
        BY <1>5, <2>1, <2>2, <3>1, <3>3
      <4>2. r < n /\ \A s \in r..(n - 1) : s \in Under(e, d)
        BY <3>1, <4>1 DEF Contiguous
      <4>3. QED
        BY <2>2, <3>1, <4>1, <4>2
    <3>4. QED
      BY <3>2, <3>3
  <2>3. CASE ~(Ending(d) /\ c = d /\ e # d)
    <3>1. Under(e, c)' = Under(e, c)
      BY <1>3, <2>3
    <3>2. CASE c = e
      BY <2>1, <3>2 DEF Under
    <3>3. CASE c # e
      <4>1. done'[c] = done[c]
        BY <1>2, <2>3, <3>3
      <4>2. QED
        BY <2>1, <3>1, <4>1 DEF Contiguous
    <3>4. QED
      BY <3>2, <3>3
  <2>4. QED
    BY <2>2, <2>3
<1>10. NotPassed'
  <2>1. ASSUME NEW e \in Boards, NEW c \in Boards, NEW r \in Under(e, c)'
        PROVE  cur_timestep'[e] <= r
    <3>1. CASE Ending(d) /\ c = d /\ e # d /\ r = n
      BY <1>2, <1>6, <2>1, <3>1 DEF Gate
    <3>2. CASE ~(Ending(d) /\ c = d /\ e # d /\ r = n)
      <4>1. r \in Under(e, c) /\ r \in Nat
        BY <1>3, <1>5, <2>1, <3>2
      <4>2. cur_timestep[e] <= r
        BY <4>1 DEF NotPassed
      <4>3. CASE e = d /\ Flips(d)
        <5>1. c # d
          BY <4>1, <4>3 DEF Under
        <5>2. c \in Received(d, n)
          BY <1>7, <4>3, <5>1
        <5>3. r > n
          BY <4>1, <4>3, <5>2 DEF Received
        <5>4. QED
          BY <1>2, <4>1, <4>3, <5>3
      <4>4. CASE ~(e = d /\ Flips(d))
        BY <1>1, <1>2, <4>2, <4>4
      <4>5. QED
        BY <4>3, <4>4
    <3>3. QED
      BY <3>1, <3>2
  <2>2. ASSUME NEW c \in Boards, NEW r \in Under(Reporter, c)'
        PROVE  rep_timestep <= r
    <3>1. r \in Under(Reporter, c) \/ (Ending(d) /\ c = d /\ r = n)
      BY <1>3, <1>5, <2>2
    <3>2. rep_timestep <= done[d]
      BY DEF Reports
    <3>3. QED
      BY <1>6, <3>1, <3>2 DEF NotPassed
  <2>3. QED
    BY <1>2, <2>1, <2>2 DEF NotPassed
<1>11. Gate'
  <2>1. SUFFICES ASSUME NEW e \in Boards, NEW c \in Boards
                 PROVE  cur_timestep'[e] <= done'[c]
    BY DEF Gate
  <2>2. cur_timestep[e] <= done[c]
    BY DEF Gate
  <2>3. CASE e = d /\ Flips(d)
    <3>1. CASE c = d
      BY <1>2, <1>5, <2>3, <3>1
    <3>2. CASE c # d
      <4>1. done[c] > n
        BY <1>7, <2>3, <3>2 DEF Received
      <4>2. QED
        BY <1>2, <1>5, <2>3, <3>2, <4>1
    <3>3. QED
      BY <3>1, <3>2
  <2>4. CASE ~(e = d /\ Flips(d))
    BY <1>1, <1>2, <1>5, <1>8, <2>2, <2>4
  <2>5. QED
    BY <2>3, <2>4
<1>12. Reports'
  <2>1. Reporter \in Sinks \ {d} /\ rep_timestep + 1 \in Nat
    BY <1>5
  <2>2. /\ Received(Reporter, rep_timestep)' = Received(Reporter, rep_timestep)
        /\ Received(Reporter, rep_timestep + 1)' = Received(Reporter, rep_timestep + 1)
    BY <1>2, <1>4, <1>5, <2>1
  <2>3. \A c \in Boards : rep_timestep <= done'[c]
    BY <1>5, <1>8 DEF Reports
  <2>4. QED
    BY <1>2, <2>2, <2>3 DEF Reports
<1>13. ASSUME NEW e \in Boards \ {d}
       PROVE  /\ end_counter'[e] + remote'[e]
                    = Cardinality(Received(e, cur_timestep[e]))'
                      + Cardinality(Received(e, cur_timestep[e] + 1))'
              /\ Received(e, cur_timestep[e] + 1)' # {} => Received(e, cur_timestep[e])' = Boards
  <2>1. PICK k \in Nat : k = cur_timestep[e]
    BY <1>5
  <2>2. cur_timestep'[e] = k /\ e \in Sinks \ {d} /\ k + 1 \in Nat
    BY <1>2, <1>5, <2>1
  <2>3. /\ Received(e, k)' = Received(e, k) /\ Received(e, k + 1)' = Received(e, k + 1)
    BY <1>4, <2>2
  <2>4. /\ end_counter[e] + remote[e] = Cardinality(Received(e, k)) + Cardinality(Received(e, k + 1))
        /\ Received(e, k + 1) # {} => Received(e, k) = Boards
    BY <2>1 DEF Counts
  <2>5. QED
    BY <1>2, <2>1, <2>2, <2>3, <2>4
<1>14. /\ end_counter'[d] + remote'[d]
             = Cardinality(Received(d, cur_timestep[d]))'
               + Cardinality(Received(d, cur_timestep[d] + 1))'
       /\ Received(d, cur_timestep[d] + 1)' # {} => Received(d, cur_timestep[d])' = Boards
  <2> DEFINE A == Received(d, n)
             B == Received(d, n + 1)
  <2>1. /\ end_counter[d] + remote[d] = Cardinality(A) + Cardinality(B)
        /\ B # {} => A = Boards
    BY <1>1 DEF Counts
  <2>2. /\ end_counter'[d] = IF Flips(d) THEN 0 ELSE Counted(d)
        /\ remote'[d] = remote[d] - Got(d)
        /\ Counted(d) = end_counter[d] + Got(d) + (IF Ending(d) THEN 1 ELSE 0)
        /\ end_counter[d] \in Nat /\ remote[d] \in Nat /\ Got(d) \in {0, 1}
    BY <1>1, TSManagerSteps DEF Counted, Got, Queues, Typed
  <2>3. /\ IsFiniteSet(A) /\ Cardinality(A) \in Nat /\ Cardinality(B) \in Nat
        /\ A \subseteq Boards /\ B \subseteq Boards
    <3>1. A \in SUBSET Boards /\ B \in SUBSET Boards
      BY DEF Received
    <3>2. QED
      BY <3>1, BoardsFinite
  <2>4. n + 1 \in Nat /\ n + 2 \in Nat /\ n + 1 # n /\ n + 2 # n
    OBVIOUS
  <2>5. Received(d, n + 1)' = B /\ Received(d, n + 2)' = Received(d, n + 2)
    BY <1>4, <2>4
  <2>6. CASE ~Flips(d)
    <3>1. cur_timestep'[d] = n
      BY <1>2, <2>6
    <3>2. CASE Ending(d)
      <4>1. Received(d, n)' = A \union {d} /\ d \notin A
        BY <1>4, <1>6, <3>2
      <4>2. Cardinality(A \union {d}) = Cardinality(A) + 1
        BY <2>3, <4>1, FS_AddElement
      <4>3. B = {}
        BY <2>1, <4>1
      <4>4. end_counter'[d] + remote'[d] = Cardinality(A \union {d}) + Cardinality(B)
        BY <2>1, <2>2, <2>3, <2>6, <3>2, <4>2
      <4>5. QED
        BY <2>5, <3>1, <4>1, <4>3, <4>4
    <3>3. CASE ~Ending(d)
      <4>1. Received(d, n)' = A
        BY <1>4, <3>3
      <4>2. end_counter'[d] + remote'[d] = Cardinality(A) + Cardinality(B)
        BY <2>1, <2>2, <2>3, <2>6, <3>3
      <4>3. QED
        BY <2>1, <2>5, <3>1, <4>1, <4>2
    <3>4. QED
      BY <3>2, <3>3
  <2>7. CASE Flips(d)
    <3>1. cur_timestep'[d] = n + 1 /\ n + 1 + 1 = n + 2
      BY <1>2, <2>7
    <3>2. Received(d, n + 2) = {}
      <4>1. ASSUME NEW c \in Boards PROVE ~(done[c] > n + 2)
        BY <1>1, <1>5 DEF Gate
      <4>2. QED
        BY <4>1 DEF Received
    <3>3. end_counter'[d] + remote'[d] = Cardinality(B)
      BY <1>7, <2>2, <2>3, <2>7
    <3>4. Cardinality(Received(d, n + 2)) = 0
      BY <3>2, FS_EmptySet
    <3>5. QED
      BY <2>3, <2>5, <3>1, <3>2, <3>3, <3>4
  <2>8. QED
    BY <2>6, <2>7
<1>15. Counts'
  BY <1>13, <1>14 DEF Counts
<1>16. QED
  BY <1>9, <1>10, <1>11, <1>12, <1>15

-----------------------------------------------------------------------------
(* Axons before ends *)

\* What one place at a time has to show.
QueuedFirst(b) ==
  \A i \in 1..Len(axonq[b]) :
    /\ axonq[b][i].round <= cur_timestep[b]
    /\ axonq[b][i].round < done[b] => ToAnnounce(b, axonq[b][i].round)

PendingFirst(b) ==
  \A i \in 1..Len(pending[b]) : pending[b][i].type = "AXON" =>
    /\ pending[b][i].round <= cur_timestep[b]
    /\ pending[b][i].round < done[b] =>
         \/ ToAnnounce(b, pending[b][i].round)
         \/ EndBehind(pending[b], i, b, pending[b][i].round)

RoutedFirst(d, b) ==
  \A i \in 1..Len(chan[d]) :
    chan[d][i].type = "AXON" /\ chan[d][i].src = b =>
      /\ chan[d][i].round <= cur_timestep[b]
      /\ chan[d][i].round < done[b] =>
           \/ chan[d][i].round \in Waiting(b)
           \/ EndBehind(chan[d], i, b, chan[d][i].round)

LEMMA AxonsFirstParts ==
  ASSUME \A b \in Boards : /\ QueuedFirst(b)' /\ PendingFirst(b)'
                           /\ \A d \in Boards : RoutedFirst(d, b)'
  PROVE  AxonsFirst'
BY DEF AxonsFirst, QueuedFirst, PendingFirst, RoutedFirst

LEMMA EnvironmentAxons ==
  ASSUME AxonsFirst,
         UNCHANGED <<axonq, tsendq, pending, chan, cur_timestep, is_end>>
  PROVE  AxonsFirst'
<1>1. done' = done
  BY DEF done
<1>2. \A b : Waiting(b)' = Waiting(b)
  BY UnderSame
<1>3. QED
  BY <1>1, <1>2 DEF AxonsFirst, ToAnnounce, EndBehind

LEMMA SendAxonAxons ==
  ASSUME Queues, AxonsFirst, NEW b \in Boards, NEW d \in Boards, SendAxon(b, d)
  PROVE  AxonsFirst'
<1>1. UNCHANGED <<tsendq, pending, chan, cur_timestep, is_end>> /\ done' = done
  BY DEF SendAxon, net, tsm, done
<1>2. \A c : Waiting(c)' = Waiting(c)
  BY <1>1, UnderSame
<1>3. done[b] = cur_timestep[b] /\ cur_timestep[b] \in Nat
  BY DoneType DEF SendAxon, Queues
<1>4. ASSUME NEW c \in Boards PROVE QueuedFirst(c)'
  <2>1. SUFFICES ASSUME NEW i \in 1..Len(axonq'[c])
                 PROVE  /\ axonq'[c][i].round <= cur_timestep[c]
                        /\ axonq'[c][i].round < done[c] => ToAnnounce(c, axonq'[c][i].round)
    BY <1>1 DEF QueuedFirst, ToAnnounce
  <2>2. CASE c # b
    BY <2>1, <2>2 DEF SendAxon, Queues, Typed, AxonsFirst
  <2>3. CASE c = b
    <3>1. /\ axonq[b] \in Seq(Axons)
          /\ axonq'[b] = Append(axonq[b], [type |-> "AXON", src |-> b, dst |-> d,
                                           round |-> cur_timestep[b]])
      BY DEF SendAxon, Queues, Typed
    <3>2. \/ i \in 1..Len(axonq[b]) /\ axonq'[b][i] = axonq[b][i]
          \/ axonq'[b][i].round = cur_timestep[b]
      BY <2>1, <2>3, <3>1
    <3>3. QED
      BY <1>3, <2>3, <3>2 DEF AxonsFirst
  <2>4. QED
    BY <2>2, <2>3
<1>5. QED
  BY <1>1, <1>2, <1>4 DEF AxonsFirst, QueuedFirst, ToAnnounce, EndBehind

LEMMA ConstructAxonAxons ==
  ASSUME Queues, AxonsFirst, NEW b \in Boards, ConstructAxon(b)
  PROVE  AxonsFirst'
<1>1. UNCHANGED <<tsendq, chan, cur_timestep, is_end>> /\ done' = done
  BY DEF ConstructAxon, tsm, done
<1>2. \A c \in Boards : Waiting(c)' = Waiting(c)
  BY ConstructAxonUnder DEF Queues
<1>3. /\ axonq[b] \in Seq(Axons) /\ axonq[b] # <<>> /\ pending[b] \in Seq(Pkts)
      /\ axonq'[b] = Tail(axonq[b]) /\ pending'[b] = Append(pending[b], Head(axonq[b]))
      /\ \A c \in Boards \ {b} : axonq'[c] = axonq[c] /\ pending'[c] = pending[c]
  BY DEF ConstructAxon, Queues, Typed
<1>4. /\ Head(axonq[b]) = axonq[b][1] /\ 1 \in 1..Len(axonq[b])
      /\ Len(pending'[b]) = Len(pending[b]) + 1 /\ Len(pending[b]) \in Nat
      /\ pending'[b][Len(pending[b]) + 1] = axonq[b][1]
      /\ \A i \in 1..Len(pending[b]) : pending'[b][i] = pending[b][i]
      /\ \A i \in 1..Len(axonq'[b]) : i + 1 \in 1..Len(axonq[b]) /\ axonq'[b][i] = axonq[b][i + 1]
  BY <1>3
<1>5. ASSUME NEW c \in Boards PROVE QueuedFirst(c)'
  <2>1. SUFFICES ASSUME NEW i \in 1..Len(axonq'[c])
                 PROVE  /\ axonq'[c][i].round <= cur_timestep[c]
                        /\ axonq'[c][i].round < done[c] => ToAnnounce(c, axonq'[c][i].round)
    BY <1>1 DEF QueuedFirst, ToAnnounce
  <2>2. CASE c # b
    BY <1>3, <2>1, <2>2 DEF AxonsFirst
  <2>3. CASE c = b
    <3>1. i + 1 \in 1..Len(axonq[b]) /\ axonq'[b][i] = axonq[b][i + 1]
      BY <1>4, <2>1, <2>3
    <3>2. QED
      BY <2>3, <3>1 DEF AxonsFirst
  <2>4. QED
    BY <2>2, <2>3
<1>6. ASSUME NEW c \in Boards PROVE PendingFirst(c)'
  <2>1. SUFFICES ASSUME NEW i \in 1..Len(pending'[c]), pending'[c][i].type = "AXON"
                 PROVE  /\ pending'[c][i].round <= cur_timestep[c]
                        /\ pending'[c][i].round < done[c] =>
                             \/ ToAnnounce(c, pending'[c][i].round)
                             \/ EndBehind(pending'[c], i, c, pending'[c][i].round)
    BY <1>1 DEF PendingFirst, ToAnnounce, EndBehind
  <2>2. CASE c # b
    BY <1>3, <2>1, <2>2 DEF AxonsFirst
  <2>3. CASE c = b /\ i = Len(pending[b]) + 1
    BY <1>4, <2>1, <2>3 DEF AxonsFirst
  <2>4. CASE c = b /\ i # Len(pending[b]) + 1
    <3>1. i \in 1..Len(pending[b]) /\ pending'[b][i] = pending[b][i]
      BY <1>4, <2>1, <2>4
    <3>2. \A r : EndBehind(pending[b], i, b, r) => EndBehind(pending'[b], i, b, r)
      BY <1>4, <3>1 DEF EndBehind
    <3>3. QED
      BY <2>1, <2>4, <3>1, <3>2 DEF AxonsFirst
  <2>5. QED
    BY <2>2, <2>3, <2>4
<1>7. QED
  BY <1>1, <1>2, <1>5, <1>6, SMTT(60) DEF AxonsFirst, QueuedFirst, PendingFirst, ToAnnounce, EndBehind

LEMMA ConstructEndAxons ==
  ASSUME Queues, AxonsFirst, NEW b \in Boards, ConstructEnd(b)
  PROVE  AxonsFirst'
<1> DEFINE e == [type |-> "TSEND", src |-> b, round |-> Head(tsendq[b])]
<1>1. UNCHANGED <<axonq, chan, cur_timestep, is_end>> /\ done' = done
  BY DEF ConstructEnd, tsm, done
<1>2. \A c \in Boards : Waiting(c)' = Waiting(c)
  BY ConstructEndUnder DEF Queues
<1>3. /\ tsendq[b] \in Seq(Nat) /\ tsendq[b] # <<>> /\ pending[b] \in Seq(Pkts)
      /\ tsendq'[b] = Tail(tsendq[b]) /\ pending'[b] = Append(pending[b], e)
      /\ axonq[b] = <<>>
      /\ \A c \in Boards \ {b} : tsendq'[c] = tsendq[c] /\ pending'[c] = pending[c]
  BY DEF ConstructEnd, Queues, Typed
<1>4. /\ Head(tsendq[b]) = tsendq[b][1]
      /\ Len(pending'[b]) = Len(pending[b]) + 1 /\ Len(pending[b]) \in Nat
      /\ pending'[b][Len(pending[b]) + 1] = e
      /\ \A i \in 1..Len(pending[b]) : pending'[b][i] = pending[b][i]
  BY <1>3
<1>5. ASSUME NEW r, ToAnnounce(b, r)
      PROVE  r = Head(tsendq[b]) \/ \E k \in 1..Len(tsendq'[b]) : tsendq'[b][k] = r
  <2>1. PICK k \in 1..Len(tsendq[b]) : tsendq[b][k] = r
    BY <1>5 DEF ToAnnounce
  <2>2. CASE k = 1
    BY <1>4, <2>1, <2>2
  <2>3. CASE k # 1
    <3>1. k - 1 \in 1..Len(tsendq'[b]) /\ tsendq'[b][k - 1] = r
      BY <1>3, <2>1, <2>3
    <3>2. QED
      BY <3>1
  <2>4. QED
    BY <2>2, <2>3
<1>6. ASSUME NEW c \in Boards PROVE QueuedFirst(c)'
  <2>1. CASE c # b
    <3>1. tsendq'[c] = tsendq[c]
      BY <1>3, <2>1
    <3>2. QueuedFirst(c)
      BY DEF AxonsFirst, QueuedFirst
    <3>3. QED
      BY <1>1, <3>1, <3>2 DEF QueuedFirst, ToAnnounce
  <2>2. CASE c = b
    <3>1. 1..Len(axonq'[b]) = {}
      BY <1>1, <1>3
    <3>2. QED
      BY <2>2, <3>1 DEF QueuedFirst
  <2>3. QED
    BY <2>1, <2>2
<1>7. ASSUME NEW c \in Boards PROVE PendingFirst(c)'
  <2>1. SUFFICES ASSUME NEW i \in 1..Len(pending'[c]), pending'[c][i].type = "AXON"
                 PROVE  /\ pending'[c][i].round <= cur_timestep[c]
                        /\ pending'[c][i].round < done[c] =>
                             \/ \E k \in 1..Len(tsendq'[c]) : tsendq'[c][k] = pending'[c][i].round
                             \/ EndBehind(pending'[c], i, c, pending'[c][i].round)
    BY <1>1 DEF PendingFirst, ToAnnounce, EndBehind
  <2>2. CASE c # b
    <3>1. tsendq'[c] = tsendq[c] /\ pending'[c] = pending[c]
      BY <1>3, <2>2
    <3>2. PendingFirst(c)
      BY DEF AxonsFirst, PendingFirst
    <3>3. QED
      BY <2>1, <3>1, <3>2 DEF PendingFirst, ToAnnounce
  <2>3. CASE c = b
    <3>1. i \in 1..Len(pending[b]) /\ pending'[b][i] = pending[b][i]
      BY <1>4, <2>1, <2>3
    <3>2. \A r : EndBehind(pending[b], i, b, r) => EndBehind(pending'[b], i, b, r)
      BY <1>4, <3>1 DEF EndBehind
    <3>3. EndBehind(pending'[b], i, b, Head(tsendq[b]))
      <4>1. Len(pending[b]) + 1 \in (i + 1)..Len(pending'[b])
        BY <1>4, <3>1
      <4>2. QED
        BY <1>4, <4>1 DEF EndBehind
    <3>4. QED
      BY <1>5, <2>1, <2>3, <3>1, <3>2, <3>3 DEF AxonsFirst
  <2>4. QED
    BY <2>2, <2>3
<1>8. ASSUME NEW c \in Boards, NEW d \in Boards PROVE RoutedFirst(d, c)'
  BY <1>1, <1>2 DEF AxonsFirst, RoutedFirst, EndBehind
<1>9. QED
  BY <1>6, <1>7, <1>8, AxonsFirstParts

\* The end behind an axon stays behind it in what is left of a queue.
LEMMA EndBehindTail ==
  ASSUME NEW q \in Seq(Pkts), q # <<>>, NEW i \in 1..Len(Tail(q)), NEW b, NEW r
  PROVE  /\ i + 1 \in 1..Len(q) /\ Tail(q)[i] = q[i + 1]
         /\ EndBehind(q, i + 1, b, r) => EndBehind(Tail(q), i, b, r)
<1>1. /\ Len(q) \in Nat \ {0} /\ Len(Tail(q)) = Len(q) - 1
      /\ \A k \in 1..Len(Tail(q)) : Tail(q)[k] = q[k + 1]
  OBVIOUS
<1>2. ASSUME EndBehind(q, i + 1, b, r) PROVE EndBehind(Tail(q), i, b, r)
  <2>1. PICK j \in (i + 1 + 1)..Len(q) : q[j].type = "TSEND" /\ q[j].src = b /\ q[j].round = r
    BY <1>2 DEF EndBehind
  <2>2. j - 1 \in (i + 1)..Len(Tail(q)) /\ Tail(q)[j - 1] = q[j]
    BY <1>1, <2>1
  <2>3. QED
    BY <2>1, <2>2 DEF EndBehind
<1>3. QED
  BY <1>1, <1>2

LEMMA TakenAxons ==
  ASSUME Queues, AxonsFirst, NEW d \in Sinks, TakenFrom(d),
         UNCHANGED <<axonq, tsendq, cur_timestep, is_end>>
  PROVE  AxonsFirst'
<1>1. UNCHANGED pending /\ done' = done
  BY DEF TakenFrom, done
<1>2. \A c \in Boards : Waiting(c)' = Waiting(c)
  BY TakenUnder
<1>3. /\ chan[d] \in Seq(Pkts) /\ chan[d] # <<>> /\ chan'[d] = Tail(chan[d])
      /\ \A e \in Sinks \ {d} : chan'[e] = chan[e]
  BY DEF TakenFrom, Queues, Typed
<1>4. ASSUME NEW c \in Boards PROVE QueuedFirst(c)' /\ PendingFirst(c)'
  BY <1>1 DEF AxonsFirst, QueuedFirst, PendingFirst, ToAnnounce, EndBehind
<1>5. ASSUME NEW c \in Boards, NEW e \in Boards PROVE RoutedFirst(e, c)'
  <2>1. SUFFICES ASSUME NEW i \in 1..Len(chan'[e]), chan'[e][i].type = "AXON",
                        chan'[e][i].src = c
                 PROVE  /\ chan'[e][i].round <= cur_timestep[c]
                        /\ chan'[e][i].round < done[c] =>
                             \/ chan'[e][i].round \in Waiting(c)
                             \/ EndBehind(chan'[e], i, c, chan'[e][i].round)
    BY <1>1, <1>2 DEF RoutedFirst, EndBehind
  <2>2. CASE e # d
    BY <1>3, <2>1, <2>2 DEF AxonsFirst, Sinks
  <2>3. CASE e = d
    <3>1. /\ i + 1 \in 1..Len(chan[d]) /\ chan'[d][i] = chan[d][i + 1]
          /\ \A r : EndBehind(chan[d], i + 1, c, r) => EndBehind(chan'[d], i, c, r)
      BY <1>3, <2>1, <2>3, EndBehindTail
    <3>2. QED
      BY <2>1, <2>3, <3>1 DEF AxonsFirst
  <2>4. QED
    BY <2>2, <2>3
<1>6. QED
  BY <1>4, <1>5, AxonsFirstParts

LEMMA TSManagerAxons ==
  ASSUME Queues, Barrier, AxonsFirst, NEW d \in Boards, TSManager(d)
  PROVE  AxonsFirst'
<1>1. PICK n \in Nat : n = cur_timestep[d]
  BY DEF Queues, Typed
<1>2. /\ UNCHANGED <<pending, chan, axonq>>
      /\ \A c \in Boards \ {d} : cur_timestep'[c] = cur_timestep[c] /\ done'[c] = done[c]
      /\ cur_timestep'[d] = IF Flips(d) THEN n + 1 ELSE n
      /\ done'[d] = IF Ending(d) THEN n + 1 ELSE done[d]
  <2>1. UNCHANGED axonq
    BY DEF TSManager
  <2>2. QED
    BY <1>1, <2>1, TSManagerSteps
<1>3. /\ Ending(d) => done[d] = n
      /\ tsendq[d] \in Seq(Nat)
      /\ \A c \in Boards : cur_timestep[c] \in Nat
  BY <1>1, FullCount DEF Queues, Typed
<1>4. ASSUME NEW c \in Boards, NEW r, ToAnnounce(c, r) \/ (Ending(d) /\ c = d /\ r = n)
      PROVE  ToAnnounce(c, r)'
  <2>1. CASE Ending(d) /\ c = d
    <3>1. tsendq'[d] = Append(tsendq[d], n)
      BY <1>1, <2>1 DEF TSManager, Queues, Typed
    <3>2. /\ Len(tsendq[d]) + 1 \in 1..Len(tsendq'[d]) /\ tsendq'[d][Len(tsendq[d]) + 1] = n
          /\ \A k \in 1..Len(tsendq[d]) : k \in 1..Len(tsendq'[d]) /\ tsendq'[d][k] = tsendq[d][k]
      BY <1>3, <3>1
    <3>3. QED
      BY <1>4, <2>1, <3>2 DEF ToAnnounce
  <2>2. CASE ~(Ending(d) /\ c = d)
    <3>1. tsendq'[c] = tsendq[c]
      BY <2>2 DEF TSManager, Queues, Typed
    <3>2. QED
      BY <1>4, <2>2, <3>1 DEF ToAnnounce
  <2>3. QED
    BY <2>1, <2>2
<1>5. ASSUME NEW c \in Boards, NEW r, r \in Waiting(c) \/ (Ending(d) /\ c = d /\ r = n)
      PROVE  r \in Waiting(c)'
  <2>1. ToAnnounce(c, r)' => r \in Waiting(c)'
    BY DEF ToAnnounce, Waiting
  <2>2. EndsOf(pending[c], c)' = EndsOf(pending[c], c)
    BY <1>2 DEF EndsOf
  <2>3. r \in Waiting(c) => r \in EndsOf(pending[c], c) \/ ToAnnounce(c, r)
    BY DEF Waiting, ToAnnounce
  <2>4. r \in EndsOf(pending[c], c)' => r \in Waiting(c)'
    BY DEF Waiting
  <2>5. QED
    BY <1>4, <1>5, <2>1, <2>2, <2>3, <2>4
<1>6. ASSUME NEW c \in Boards, NEW r \in Nat, r <= cur_timestep[c]
      PROVE  r <= cur_timestep'[c] /\ (r < done'[c] => r < done[c] \/ (Ending(d) /\ c = d /\ r = n))
  BY <1>1, <1>2, <1>3, <1>6
<1>7. ASSUME NEW c \in Boards PROVE QueuedFirst(c)'
  <2>1. \A i \in 1..Len(axonq[c]) : axonq[c][i].round \in Nat
    <3>1. \A i \in 1..Len(axonq[c]) : axonq[c][i] \in Axons
      BY DEF Queues, Typed
    <3>2. QED
      BY <3>1 DEF Axons
  <2>2. QED
    BY <1>2, <1>4, <1>6, <2>1 DEF AxonsFirst, QueuedFirst
<1>8. ASSUME NEW c \in Boards PROVE PendingFirst(c)'
  <2>1. \A i \in 1..Len(pending[c]) : pending[c][i].round \in Nat
    <3>1. \A i \in 1..Len(pending[c]) : pending[c][i] \in Pkts
      BY DEF Queues, Typed
    <3>2. QED
      BY <3>1 DEF Pkts, Axons, Ends
  <2>2. SUFFICES ASSUME NEW i \in 1..Len(pending[c]), pending[c][i].type = "AXON"
                 PROVE  /\ pending[c][i].round <= cur_timestep'[c]
                        /\ pending[c][i].round < done'[c] =>
                             \/ \E k \in 1..Len(tsendq'[c]) : tsendq'[c][k] = pending[c][i].round
                             \/ EndBehind(pending[c], i, c, pending[c][i].round)
    BY <1>2 DEF PendingFirst, ToAnnounce, EndBehind
  <2>3. PICK r \in Nat : r = pending[c][i].round
    BY <2>1
  <2>4. /\ r <= cur_timestep[c]
        /\ r < done[c] => ToAnnounce(c, r) \/ EndBehind(pending[c], i, c, r)
    BY <2>2, <2>3 DEF AxonsFirst
  <2>5. r < done'[c] => ToAnnounce(c, r)' \/ EndBehind(pending[c], i, c, r)
    BY <1>4, <1>6, <2>4
  <2>6. ToAnnounce(c, r)' => \E k \in 1..Len(tsendq'[c]) : tsendq'[c][k] = r
    BY DEF ToAnnounce
  <2>7. r <= cur_timestep'[c]
    BY <1>6, <2>4
  <2>8. r < done'[c] => \/ \E k \in 1..Len(tsendq'[c]) : tsendq'[c][k] = r
                        \/ EndBehind(pending[c], i, c, r)
    BY <2>5, <2>6
  <2>9. QED
    BY <2>3, <2>7, <2>8
<1>9. ASSUME NEW c \in Boards, NEW e \in Boards PROVE RoutedFirst(e, c)'
  <2>1. \A i \in 1..Len(chan[e]) : chan[e][i].round \in Nat
    <3>1. chan[e] \in Seq(Pkts)
      BY DEF Queues, Typed, Sinks
    <3>2. \A i \in 1..Len(chan[e]) : chan[e][i] \in Pkts
      BY <3>1
    <3>3. QED
      BY <3>2 DEF Pkts, Axons, Ends
  <2>2. SUFFICES ASSUME NEW i \in 1..Len(chan[e]), chan[e][i].type = "AXON", chan[e][i].src = c
                 PROVE  /\ chan[e][i].round <= cur_timestep'[c]
                        /\ chan[e][i].round < done'[c] =>
                             \/ chan[e][i].round \in Waiting(c)'
                             \/ EndBehind(chan[e], i, c, chan[e][i].round)
    BY <1>2 DEF RoutedFirst, EndBehind
  <2>3. PICK r \in Nat : r = chan[e][i].round
    BY <2>1
  <2>4. /\ r <= cur_timestep[c]
        /\ r < done[c] => r \in Waiting(c) \/ EndBehind(chan[e], i, c, r)
    BY <2>2, <2>3 DEF AxonsFirst
  <2>5. r <= cur_timestep'[c] /\ (r < done'[c] => r \in Waiting(c)' \/ EndBehind(chan[e], i, c, r))
    BY <1>5, <1>6, <2>4
  <2>6. QED
    BY <2>3, <2>5
<1>10. QED
  BY <1>7, <1>8, <1>9, AxonsFirstParts

LEMMA RoutedAxons ==
  ASSUME Queues, AxonsFirst, NEW b \in Boards, NEW m, Routed(b, m)
  PROVE  AxonsFirst'
<1>1. UNCHANGED <<axonq, tsendq, cur_timestep, is_end>> /\ done' = done
  BY DEF Routed, tsm, done
<1>2. /\ m = Head(pending[b]) /\ m \in Pkts /\ m.src = b /\ b \notin PacketDests(m)
      /\ m = pending[b][1] /\ 1 \in 1..Len(pending[b])
      /\ m.type = "TSEND" => PacketDests(m) = Sinks \ {b}
  BY HeadOfLink DEF Queues, Routed
<1>3. /\ pending[b] \in Seq(Pkts) /\ pending[b] # <<>> /\ pending'[b] = Tail(pending[b])
      /\ \A c \in Boards \ {b} : pending'[c] = pending[c]
      /\ \A d \in Sinks : chan[d] \in Seq(Pkts)
      /\ \A d \in Sinks : chan'[d] = IF d \in PacketDests(m) THEN Append(chan[d], m) ELSE chan[d]
  BY DEF Routed, Queues, Typed
<1>4. \A c \in Boards : Waiting(c) = Waiting(c)' \union
                          (IF c = b /\ m.type = "TSEND" THEN {m.round} ELSE {})
  BY RoutedUnder DEF Queues
<1>5. ASSUME NEW c \in Boards PROVE QueuedFirst(c)'
  BY <1>1 DEF AxonsFirst, QueuedFirst, ToAnnounce
<1>6. ASSUME NEW c \in Boards PROVE PendingFirst(c)'
  <2>1. SUFFICES ASSUME NEW i \in 1..Len(pending'[c]), pending'[c][i].type = "AXON"
                 PROVE  /\ pending'[c][i].round <= cur_timestep[c]
                        /\ pending'[c][i].round < done[c] =>
                             \/ ToAnnounce(c, pending'[c][i].round)
                             \/ EndBehind(pending'[c], i, c, pending'[c][i].round)
    BY <1>1 DEF PendingFirst, ToAnnounce, EndBehind
  <2>2. CASE c # b
    BY <1>3, <2>1, <2>2 DEF AxonsFirst
  <2>3. CASE c = b
    <3>1. /\ i + 1 \in 1..Len(pending[b]) /\ pending'[b][i] = pending[b][i + 1]
          /\ \A r : EndBehind(pending[b], i + 1, b, r) => EndBehind(pending'[b], i, b, r)
      BY <1>3, <2>1, <2>3, EndBehindTail
    <3>2. QED
      BY <2>1, <2>3, <3>1 DEF AxonsFirst
  <2>4. QED
    BY <2>2, <2>3
\* An axon that reaches a queue has its end behind it on the link it leaves.
<1>7. ASSUME m.type = "AXON"
      PROVE  m.round <= cur_timestep[b] /\ (m.round < done[b] => m.round \in Waiting(b)')
  <2>1. /\ m.round <= cur_timestep[b]
        /\ m.round < done[b] => ToAnnounce(b, m.round) \/ EndBehind(pending[b], 1, b, m.round)
    BY <1>2, <1>7 DEF AxonsFirst
  <2>2. ToAnnounce(b, m.round) \/ EndBehind(pending[b], 1, b, m.round) => m.round \in Waiting(b)
    BY DEF ToAnnounce, EndBehind, Waiting, EndsOf
  <2>3. Waiting(b)' = Waiting(b)
    BY <1>4, <1>7
  <2>4. QED
    BY <2>1, <2>2, <2>3
<1>8. ASSUME NEW c \in Boards, NEW d \in Boards PROVE RoutedFirst(d, c)'
  <2>1. SUFFICES ASSUME NEW i \in 1..Len(chan'[d]), chan'[d][i].type = "AXON",
                        chan'[d][i].src = c
                 PROVE  /\ chan'[d][i].round <= cur_timestep[c]
                        /\ chan'[d][i].round < done[c] =>
                             \/ chan'[d][i].round \in Waiting(c)'
                             \/ EndBehind(chan'[d], i, c, chan'[d][i].round)
    BY <1>1 DEF RoutedFirst, EndBehind
  <2>2. d \in Sinks /\ chan[d] \in Seq(Pkts)
    BY <1>3 DEF Sinks
  <2>3. CASE d \notin PacketDests(m)
    <3>1. chan'[d] = chan[d]
      BY <1>3, <2>2, <2>3
    <3>2. /\ chan[d][i].round <= cur_timestep[c]
          /\ chan[d][i].round < done[c] =>
               chan[d][i].round \in Waiting(c) \/ EndBehind(chan[d], i, c, chan[d][i].round)
      BY <2>1, <3>1 DEF AxonsFirst
    <3>3. ~(c = b /\ m.type = "TSEND")
      <4>1. chan[d][i].src # d
        BY <2>1, <2>2, <3>1 DEF Queues, Addressed
      <4>2. QED
        BY <1>2, <2>1, <2>2, <2>3, <3>1, <4>1
    <3>4. QED
      BY <1>4, <3>1, <3>2, <3>3
  <2>4. CASE d \in PacketDests(m)
    <3>1. chan'[d] = Append(chan[d], m)
      BY <1>3, <2>2, <2>4
    <3>2. /\ Len(chan'[d]) = Len(chan[d]) + 1 /\ Len(chan[d]) \in Nat
          /\ chan'[d][Len(chan[d]) + 1] = m
          /\ \A j \in 1..Len(chan[d]) : chan'[d][j] = chan[d][j]
      BY <2>2, <3>1
    <3>3. CASE i = Len(chan[d]) + 1
      BY <1>2, <1>7, <2>1, <3>2, <3>3
    <3>4. CASE i # Len(chan[d]) + 1
      <4>1. i \in 1..Len(chan[d]) /\ chan'[d][i] = chan[d][i]
        BY <2>1, <3>2, <3>4
      <4>2. \A r : EndBehind(chan[d], i, c, r) => EndBehind(chan'[d], i, c, r)
        BY <3>2, <4>1 DEF EndBehind
      <4>3. c = b /\ m.type = "TSEND" => EndBehind(chan'[d], i, c, m.round)
        <5>1. Len(chan[d]) + 1 \in (i + 1)..Len(chan'[d])
          BY <3>2, <4>1
        <5>2. QED
          BY <1>2, <3>2, <5>1 DEF EndBehind
      <4>4. /\ chan[d][i].round <= cur_timestep[c]
            /\ chan[d][i].round < done[c] =>
                 chan[d][i].round \in Waiting(c) \/ EndBehind(chan[d], i, c, chan[d][i].round)
        BY <2>1, <4>1 DEF AxonsFirst
      <4>5. \A r \in Waiting(c) : r \in Waiting(c)' \/ (c = b /\ m.type = "TSEND" /\ r = m.round)
        BY <1>4
      <4>6. QED
        BY <4>1, <4>2, <4>3, <4>4, <4>5
    <3>5. QED
      BY <3>3, <3>4
  <2>5. QED
    BY <2>3, <2>4
<1>9. QED
  BY <1>5, <1>6, <1>8, AxonsFirstParts

-----------------------------------------------------------------------------
(* The invariant *)

LEMMA InitInv == Init => Inv
<1>1. SUFFICES ASSUME Init PROVE Inv
  OBVIOUS
<1>2. Queues
  BY <1>1, InitTyped, InitOrder DEF Queues
<1>3. \A b \in Boards : axonq[b] = <<>> /\ tsendq[b] = <<>> /\ pending[b] = <<>>
  BY <1>1 DEF Init, Net!Init
<1>4. \A d \in Sinks : chan[d] = <<>>
  BY <1>1 DEF Init, Net!Init, Sinks
<1>5. \A b \in Boards : cur_timestep[b] = 0 /\ done[b] = 0 /\ end_counter[b] = 0 /\ remote[b] = 0
  BY <1>1 DEF Init, done
<1>6. rep_counter = 0 /\ rep_timestep = 0
  BY <1>1 DEF Init
<1>7. \A d \in Sinks, b \in Boards : Under(d, b) = {}
  BY <1>3, <1>4 DEF Under, Waiting, EndsOf
<1>8. Boards \subseteq Sinks /\ Reporter \in Sinks
  BY DEF Sinks
<1>9. \A d : \A n \in Nat : Received(d, n) = {}
  BY <1>5 DEF Received
<1>10. Contiguous /\ NotPassed /\ Gate
  BY <1>5, <1>7, <1>8 DEF Contiguous, NotPassed, Gate
<1>11. Counts
  <2>1. \A d \in Boards : Received(d, cur_timestep[d]) = {} /\ Received(d, cur_timestep[d] + 1) = {}
    BY <1>5, <1>9
  <2>2. QED
    BY <1>5, <2>1, FS_EmptySet DEF Counts
<1>12. Reports
  BY <1>5, <1>6, <1>9, FS_EmptySet, BoardAssumption DEF Reports
<1>13. AxonsFirst
  BY <1>3, <1>4, <1>8 DEF AxonsFirst
<1>14. QED
  BY <1>2, <1>10, <1>11, <1>12, <1>13 DEF Inv

LEMMA StepInv == Inv /\ [Next]_vars => Inv'
<1> SUFFICES ASSUME Inv, [Next]_vars PROVE Inv'
  OBVIOUS
<1>1. Queues /\ Typed /\ Addressed /\ Increasing /\ Sorted /\ Barrier
      /\ Contiguous /\ NotPassed /\ AxonsFirst
  BY DEF Inv, Queues, Barrier
<1> DEFINE Counters == <<cur_timestep, is_end, end_counter, remote, rep_counter, rep_timestep>>
<1>3. ASSUME NEW b \in Boards, Environment(b) PROVE Inv'
  <2>1. (Typed /\ Addressed)' /\ UNCHANGED <<axonq, tsendq, remote, tsm, net, rep>>
    BY <1>1, <1>3, EnvironmentTyped
  <2>2. UNCHANGED <<axonq, tsendq, pending, chan>> /\ UNCHANGED Counters
    BY <2>1 DEF tsm, net, rep
  <2>3. (Increasing /\ Sorted)'
    BY <1>1, <2>2, QueuesSame
  <2>4. Barrier'
    BY <1>1, <2>2, UnderSame, BarrierSame
  <2>5. AxonsFirst'
    BY <1>1, <2>2, EnvironmentAxons
  <2>6. QED
    BY <2>1, <2>3, <2>4, <2>5 DEF Inv, Queues, Barrier
<1>4. ASSUME NEW b \in Boards, NEW d \in Boards, SendAxon(b, d) PROVE Inv'
  <2>1. (Typed /\ Addressed)' /\ AxonsFirst'
    BY <1>1, <1>4, SendAxonTyped, SendAxonAxons
  <2>2. UNCHANGED <<tsendq, pending, chan>> /\ UNCHANGED Counters
    BY <1>4 DEF SendAxon, tsm, net, rep
  <2>3. (Increasing /\ Sorted)'
    BY <1>1, <2>2, QueuesSame
  <2>4. Barrier'
    BY <1>1, <2>2, UnderSame, BarrierSame
  <2>5. QED
    BY <2>1, <2>3, <2>4 DEF Inv, Queues, Barrier
<1>5. ASSUME NEW b \in Boards, TSManager(b) PROVE Inv'
  <2>1. (Typed /\ Addressed)' /\ Barrier' /\ AxonsFirst'
    BY <1>1, <1>5, TSManagerTyped, TSManagerBarrier, TSManagerAxons
  <2>2. (Increasing /\ Sorted)'
    BY <1>1, <1>5, TSManagerSteps DEF Typed
  <2>3. QED
    BY <2>1, <2>2 DEF Inv, Queues, Barrier
<1>6. ASSUME NEW b \in Boards, PacketConstructor(b) PROVE Inv'
  <2>1. CASE ConstructAxon(b)
    <3>1. (Typed /\ Addressed)' /\ (Increasing /\ Sorted)' /\ AxonsFirst'
      BY <1>1, <2>1, ConstructAxonTyped, ConstructAxonOrder, ConstructAxonAxons
    <3>2. UNCHANGED Counters /\ \A d \in Sinks, c \in Boards : Under(d, c)' = Under(d, c)
      BY <1>1, <2>1, ConstructAxonUnder DEF ConstructAxon, tsm, rep
    <3>3. Barrier'
      BY <1>1, <3>2, BarrierSame
    <3>4. QED
      BY <3>1, <3>3 DEF Inv, Queues, Barrier
  <2>2. CASE ConstructEnd(b)
    <3>1. (Typed /\ Addressed)' /\ (Increasing /\ Sorted)' /\ AxonsFirst'
      BY <1>1, <2>2, ConstructEndTyped, ConstructEndOrder, ConstructEndAxons
    <3>2. UNCHANGED Counters /\ \A d \in Sinks, c \in Boards : Under(d, c)' = Under(d, c)
      BY <1>1, <2>2, ConstructEndUnder DEF ConstructEnd, tsm, rep
    <3>3. Barrier'
      BY <1>1, <3>2, BarrierSame
    <3>4. QED
      BY <3>1, <3>3 DEF Inv, Queues, Barrier
  <2>3. QED
    BY <1>6, <2>1, <2>2, ConstructorSteps
<1>7. ASSUME NEW b \in Boards, Route(b) PROVE Inv'
  <2>1. Routed(b, Head(pending[b]))
    BY <1>7, RouteStep
  <2>2. (Typed /\ Addressed)' /\ (Increasing /\ Sorted)' /\ AxonsFirst'
    BY <1>1, <2>1, RoutedTyped, RoutedOrder, RoutedAxons
  <2>3. UNCHANGED Counters /\ \A d \in Sinks, c \in Boards : Under(d, c)' = Under(d, c)
    BY <1>1, <2>1, RoutedUnder DEF Routed, tsm, rep
  <2>4. Barrier'
    BY <1>1, <2>3, BarrierSame
  <2>5. QED
    BY <2>2, <2>4 DEF Inv, Queues, Barrier
<1>8. ASSUME NEW b \in Boards, PacketDecoder(b) PROVE Inv'
  <2>1. (Typed /\ Addressed)' /\ Barrier'
    BY <1>1, <1>8, DecoderTyped, DecoderBarrier
  <2>2. b \in Sinks /\ TakenFrom(b) /\ UNCHANGED <<axonq, tsendq, cur_timestep, is_end>>
    BY <1>8 DEF PacketDecoder, Net!Take, TakenFrom, Sinks, tsm
  <2>3. (Increasing /\ Sorted)' /\ AxonsFirst'
    BY <1>1, <2>2, TakenOrder, TakenAxons
  <2>4. QED
    BY <2>1, <2>3 DEF Inv, Queues, Barrier
<1>9. ASSUME TimestepReporter PROVE Inv'
  <2>1. (Typed /\ Addressed)' /\ Barrier'
    BY <1>1, <1>9, ReporterTyped, ReporterBarrier
  <2>2. Reporter \in Sinks /\ TakenFrom(Reporter) /\ UNCHANGED <<axonq, tsendq, cur_timestep, is_end>>
    BY <1>9 DEF TimestepReporter, Net!Take, TakenFrom, Sinks, tsm
  <2>3. (Increasing /\ Sorted)' /\ AxonsFirst'
    BY <1>1, <2>2, TakenOrder, TakenAxons
  <2>4. QED
    BY <2>1, <2>3 DEF Inv, Queues, Barrier
<1>10. ASSUME NEW b \in Boards, NEW rx \in BOOLEAN, ICController(b, rx) \/ UNCHANGED vars
       PROVE  Inv'
  <2>1. UNCHANGED <<axonq, tsendq, pending, chan, dynfin, idle, is_start>> /\ UNCHANGED Counters
    BY <1>10 DEF ICController, vars, board, tsm, net, rep
  <2>2. (Typed /\ Addressed)'
    BY <1>1, <2>1 DEF Typed, Addressed
  <2>3. (Increasing /\ Sorted)'
    BY <1>1, <2>1, QueuesSame
  <2>4. Barrier'
    BY <1>1, <2>1, UnderSame, BarrierSame
  <2>5. AxonsFirst'
    BY <1>1, <2>1, EnvironmentAxons
  <2>6. QED
    BY <2>2, <2>3, <2>4, <2>5 DEF Inv, Queues, Barrier
<1>11. CASE Next
  <2>1. CASE TimestepReporter
    BY <1>9, <2>1
  <2>2. CASE ~TimestepReporter
    <3>1. PICK b \in Boards :
            \/ Environment(b) \/ \E d \in Boards : SendAxon(b, d)
            \/ TSManager(b) \/ PacketConstructor(b) \/ Route(b) \/ PacketDecoder(b)
            \/ \E rx \in BOOLEAN : ICController(b, rx)
      BY <1>11, <2>2, Zenon DEF Next, Environment
    <3>2. QED
      BY <1>3, <1>4, <1>5, <1>6, <1>7, <1>8, <1>10, <3>1
  <2>3. QED
    BY <2>1, <2>2
<1>12. CASE UNCHANGED vars
  <2>1. PICK b \in Boards : TRUE
    BY BoardAssumption
  <2>2. QED
    BY <1>10, <1>12, <2>1
<1>13. QED
  BY <1>11, <1>12

-----------------------------------------------------------------------------
(* What the invariant says *)

LEMMA Invariance == Spec => []Inv
BY InitInv, StepInv, PTL DEF Spec

LEMMA InvOverrun == Inv => NoOverrun
<1>1. SUFFICES ASSUME Inv, NEW b \in Boards
               PROVE  /\ end_counter[b] + remote[b] <= 2 * num_boards - 1
                      /\ ~is_end[b] => end_counter[b] < num_boards
  BY DEF NoOverrun
<1> DEFINE A == Received(b, cur_timestep[b])
           B == Received(b, cur_timestep[b] + 1)
<1>2. /\ Typed /\ end_counter[b] \in Nat /\ remote[b] \in Nat /\ cur_timestep[b] \in Nat
  BY <1>1 DEF Inv, Queues, Typed
<1>3. end_counter[b] + remote[b] = Cardinality(A) + Cardinality(B) /\ (B # {} => A = Boards)
  BY <1>1 DEF Inv, Counts
<1>4. b \notin B /\ (~is_end[b] => b \notin A)
  BY <1>2, DoneType DEF Received
<1>5. A \in SUBSET Boards /\ B \in SUBSET Boards /\ num_boards \in Nat \ {0}
  BY BoardsFinite DEF Received
<1>6. /\ Cardinality(A) \in 0..num_boards /\ (Cardinality(A) = num_boards => A = Boards)
      /\ Cardinality(B) \in 0..num_boards /\ (Cardinality(B) = num_boards => B = Boards)
  BY <1>5, BoardsFinite
<1>7. Cardinality(B) < num_boards
  BY <1>4, <1>5, <1>6
<1>8. end_counter[b] + remote[b] <= 2 * num_boards - 1
  BY <1>2, <1>3, <1>5, <1>6, <1>7
<1>9. ASSUME ~is_end[b] PROVE end_counter[b] < num_boards
  <2>1. Cardinality(A) < num_boards /\ B = {}
    BY <1>3, <1>4, <1>5, <1>6, <1>9
  <2>2. Cardinality(B) = 0
    BY <2>1, FS_EmptySet
  <2>3. QED
    BY <1>2, <1>3, <1>5, <1>6, <2>1, <2>2
<1>10. QED
  BY <1>8, <1>9

\* An axon on its way is of no later timestep than its board, and is either
\* of a timestep its board has not finished or in front of the end of it.
LEMMA AxonOnItsWay ==
  ASSUME Inv, NEW d \in Boards, NEW p \in InTransit(d), p.type = "AXON"
  PROVE  \E b \in Boards : /\ p.round \in Nat /\ p.round <= cur_timestep[b]
                           /\ p.round < done[b] => p.round \in Under(d, b)
<1>1. Typed /\ Addressed /\ AxonsFirst /\ d \in Sinks
  BY DEF Inv, Queues, Sinks
<1>2. CASE \E i \in DOMAIN chan[d] : p = chan[d][i]
  <2>1. chan[d] \in Seq(Pkts)
    BY <1>1 DEF Typed
  <2>2. PICK i \in 1..Len(chan[d]) : p = chan[d][i]
    BY <1>2, <2>1
  <2>3. p \in Pkts /\ p.src # d
    BY <1>1, <2>1, <2>2 DEF Addressed
  <2>4. p.src \in Boards /\ p.round \in Nat
    BY <2>3 DEF Pkts, Axons, Ends
  <2>5. /\ p.round <= cur_timestep[p.src]
        /\ p.round < done[p.src] =>
             p.round \in Waiting(p.src) \/ EndBehind(chan[d], i, p.src, p.round)
    BY <1>1, <2>2, <2>4 DEF AxonsFirst
  <2>6. EndBehind(chan[d], i, p.src, p.round) => p.round \in EndsOf(chan[d], p.src)
    <3>1. ASSUME NEW j \in (i + 1)..Len(chan[d]) PROVE j \in 1..Len(chan[d])
      BY <2>1, <3>1
    <3>2. QED
      BY <3>1 DEF EndBehind, EndsOf
  <2>7. QED
    BY <2>3, <2>4, <2>5, <2>6 DEF Under
<1>3. ASSUME NEW b \in Boards, \E i \in DOMAIN axonq[b] : p = axonq[b][i], d \in PacketDests(p)
      PROVE  /\ p.round \in Nat /\ p.round <= cur_timestep[b]
             /\ p.round < done[b] => p.round \in Under(d, b)
  <2>1. axonq[b] \in Seq(Axons)
    BY <1>1 DEF Typed
  <2>2. PICK i \in 1..Len(axonq[b]) : p = axonq[b][i]
    BY <1>3, <2>1
  <2>3. p \in Axons /\ p.dst # b /\ d = p.dst
    <3>1. p \in Axons /\ p.dst # b
      BY <1>1, <2>1, <2>2 DEF Addressed
    <3>2. d = p.dst
      BY <1>3 DEF PacketDests
    <3>3. QED
      BY <3>1, <3>2
  <2>4. p.round \in Nat
    BY <2>3 DEF Axons
  <2>5. p.round <= cur_timestep[b] /\ (p.round < done[b] => ToAnnounce(b, p.round))
    BY <1>1, <2>2 DEF AxonsFirst
  <2>6. QED
    BY <2>3, <2>4, <2>5 DEF Under, Waiting, ToAnnounce
<1>4. ASSUME NEW b \in Boards, \E i \in DOMAIN pending[b] : p = pending[b][i], d \in PacketDests(p)
      PROVE  /\ p.round \in Nat /\ p.round <= cur_timestep[b]
             /\ p.round < done[b] => p.round \in Under(d, b)
  <2>1. pending[b] \in Seq(Pkts)
    BY <1>1 DEF Typed
  <2>2. PICK i \in 1..Len(pending[b]) : p = pending[b][i]
    BY <1>4, <2>1
  <2>3. p \in Pkts /\ p.dst # b /\ d = p.dst
    BY <1>1, <1>4, <2>1, <2>2 DEF Addressed, PacketDests
  <2>4. p.round \in Nat
    BY <2>3 DEF Pkts, Axons, Ends
  <2>5. /\ p.round <= cur_timestep[b]
        /\ p.round < done[b] => ToAnnounce(b, p.round) \/ EndBehind(pending[b], i, b, p.round)
    BY <1>1, <2>2 DEF AxonsFirst
  <2>6. EndBehind(pending[b], i, b, p.round) => p.round \in EndsOf(pending[b], b)
    <3>1. ASSUME NEW j \in (i + 1)..Len(pending[b]) PROVE j \in 1..Len(pending[b])
      BY <2>1, <3>1
    <3>2. QED
      BY <3>1 DEF EndBehind, EndsOf
  <2>7. QED
    BY <2>3, <2>4, <2>5, <2>6 DEF Under, Waiting, ToAnnounce
<1>5. \/ \E i \in DOMAIN chan[d] : p = chan[d][i]
      \/ \E b \in Boards : /\ \/ \E i \in DOMAIN axonq[b] : p = axonq[b][i]
                              \/ \E i \in DOMAIN pending[b] : p = pending[b][i]
                           /\ d \in PacketDests(p)
  BY DEF InTransit
<1>6. QED
  BY <1>2, <1>3, <1>4, <1>5

LEMMA InvStraggler == Inv => NoStraggler /\ EarlyByOneAtMost
<1>1. SUFFICES ASSUME Inv, NEW d \in Boards, NEW p \in InTransit(d), p.type = "AXON"
               PROVE  p.round >= cur_timestep[d] /\ p.round <= cur_timestep[d] + 1
  BY DEF NoStraggler, EarlyByOneAtMost
<1>2. PICK b \in Boards : /\ p.round \in Nat /\ p.round <= cur_timestep[b]
                          /\ p.round < done[b] => p.round \in Under(d, b)
  BY <1>1, AxonOnItsWay
<1>3. /\ \A c \in Boards : /\ cur_timestep[c] \in Nat /\ done[c] \in Nat
                           /\ done[c] <= cur_timestep[c] + 1
      /\ cur_timestep[b] <= done[d] /\ cur_timestep[d] <= done[b]
  BY <1>1, DoneType DEF Inv, Queues, Gate
<1>4. p.round \in Under(d, b) => cur_timestep[d] <= p.round
  BY <1>1 DEF Inv, NotPassed
<1>5. QED
  BY <1>2, <1>3, <1>4

LEMMA InvReporter == Inv => ReporterHonest
BY DEF Inv, Reports, ReporterHonest

-----------------------------------------------------------------------------
(* The boards implement the barrier *)

LEMMA InitRefines == Init => Steps!Init
BY DEF Init, Steps!Init, done

\* A step of TSManager that announces the end, flips the parity or does both
\* is a step of the barrier, and no other step is one.
LEMMA StepRefines == Inv /\ [Next]_vars => [Steps!Next]_<<cur_timestep, done>>
<1> SUFFICES ASSUME Inv, [Next]_vars PROVE [Steps!Next]_<<cur_timestep, done>>
  OBVIOUS
<1>1. Queues /\ Barrier /\ done \in [Boards -> Nat] /\ cur_timestep \in [Boards -> Nat]
  BY DoneType DEF Inv, Queues, Barrier
<1>2. ASSUME UNCHANGED <<cur_timestep, is_end>> PROVE UNCHANGED <<cur_timestep, done>>
  BY <1>2 DEF done
<1>3. ASSUME NEW b \in Boards, TSManager(b)
      PROVE  Steps!Next \/ UNCHANGED <<cur_timestep, done>>
  <2>1. PICK n \in Nat : n = cur_timestep[b]
    BY <1>1
  <2>2. /\ \A c \in Boards \ {b} : cur_timestep'[c] = cur_timestep[c] /\ done'[c] = done[c]
        /\ cur_timestep'[b] = IF Flips(b) THEN n + 1 ELSE n
        /\ done'[b] = IF Ending(b) THEN n + 1 ELSE done[b]
        /\ Flips(b) => done'[b] = n + 1
    BY <1>1, <1>3, <2>1, TSManagerSteps
  <2>3. /\ Ending(b) => done[b] = n
        /\ Flips(b) => \A c \in Boards \ {b} : done[c] > n
    BY <1>1, <2>1, FullCount DEF Flips, Received
  <2>4. /\ done' = [c \in Boards |-> done'[c]] /\ done = [c \in Boards |-> done[c]]
        /\ cur_timestep' = [cur_timestep EXCEPT ![b] = IF Flips(b) THEN n + 1 ELSE n]
    BY <1>1, <1>3, <2>1 DEF done, TSManager
  <2>5. done' = IF Ending(b) THEN [done EXCEPT ![b] = n + 1] ELSE done
    BY <1>1, <2>2, <2>4
  <2>6. CASE Ending(b) /\ ~Flips(b)
    BY <1>1, <2>1, <2>3, <2>4, <2>5, <2>6 DEF Steps!Next, Steps!Finish
  <2>7. CASE Ending(b) /\ Flips(b)
    BY <1>1, <2>1, <2>3, <2>4, <2>5, <2>7 DEF Steps!Next, Steps!FinishAndAdvance
  <2>8. CASE ~Ending(b) /\ Flips(b)
    <3>1. \A c \in Boards : done[c] > n
      BY <2>2, <2>3, <2>8
    <3>2. QED
      BY <1>1, <2>1, <2>4, <2>5, <2>8, <3>1 DEF Steps!Next, Steps!Advance
  <2>9. CASE ~Ending(b) /\ ~Flips(b)
    BY <1>1, <2>1, <2>4, <2>5, <2>9
  <2>10. QED
    BY <2>6, <2>7, <2>8, <2>9
<1>4. ASSUME NEW b \in Boards, NEW d \in Boards, NEW rx \in BOOLEAN,
             \/ Environment(b) \/ SendAxon(b, d) \/ PacketConstructor(b)
             \/ ICController(b, rx) \/ Route(b) \/ PacketDecoder(b)
             \/ TimestepReporter \/ UNCHANGED vars
      PROVE  UNCHANGED <<cur_timestep, is_end>>
  BY <1>4 DEF ICController, Environment, CoreStart, CoreFinish, PropagatorDone, SendAxon, PacketConstructor,
              Route, PacketDecoder, TimestepReporter, vars, tsm
<1>5. PICK b \in Boards : TRUE
  BY BoardAssumption
<1>6. CASE TimestepReporter \/ UNCHANGED vars
  BY <1>2, <1>4, <1>5, <1>6
<1>7. CASE ~(TimestepReporter \/ UNCHANGED vars)
  <2>1. PICK c \in Boards :
          \/ Environment(c) \/ \E d \in Boards : SendAxon(c, d)
          \/ TSManager(c) \/ PacketConstructor(c) \/ Route(c) \/ PacketDecoder(c)
          \/ \E rx \in BOOLEAN : ICController(c, rx)
    BY <1>7, Zenon DEF Next, Environment
  <2>2. QED
    BY <1>2, <1>3, <1>4, <2>1
<1>8. QED
  BY <1>6, <1>7

-----------------------------------------------------------------------------
(* Boards that wait for each other do so for ever *)

\* Packets in the FIFOs from and to a board.
Out(b) == Len(pending[b])
In(b) == Len(chan[b])

\* What ICController has forwarded is in the FIFOs.
Forwarded ==
  /\ sent \in [Boards -> Nat] /\ received \in [Boards -> Nat]
  /\ \A b \in Boards : sent[b] <= Out(b) /\ received[b] <= In(b)

LEMMA InitForwarded == Init => Forwarded
BY BoardAssumption DEF Init, Forwarded, Net!Init, Out, In

LEMMA NetSame ==
  ASSUME UNCHANGED net
  PROVE  (Forwarded => Forwarded') /\ (Gridlock => Gridlock')
BY DEF net, Forwarded, Gridlock, QueueFull, Out, In

\* The steps of the network, one after the other.
NetStep(b) ==
  \/ PacketConstructor(b) \/ Route(b) \/ PacketDecoder(b)
  \/ \E rx \in BOOLEAN : ICController(b, rx)

LEMMA OtherSteps ==
  ASSUME [Next]_vars, ~TimestepReporter, \A b \in Boards : ~NetStep(b)
  PROVE  UNCHANGED net
<1>1. CASE UNCHANGED vars
  BY <1>1 DEF vars
<1>2. CASE Next
  <2>1. PICK b \in Boards : \/ CoreStart(b) \/ CoreFinish(b) \/ PropagatorDone(b)
                            \/ \E d \in Boards : SendAxon(b, d)
                            \/ TSManager(b)
    BY <1>2, Zenon DEF Next, NetStep
  <2>2. QED
    BY <2>1 DEF CoreStart, CoreFinish, PropagatorDone, SendAxon, TSManager
<1>3. QED
  BY <1>1, <1>2

\* What a step does to the lengths of the FIFOs.
LEMMA NetSteps ==
  ASSUME Typed, NEW b \in Boards
  PROVE  /\ PacketConstructor(b) =>
              /\ UNCHANGED <<chan, sent, received>>
              /\ \E m : pending' = [pending EXCEPT ![b] = Append(@, m)]
         /\ Route(b) =>
              /\ UNCHANGED received /\ sent' = [sent EXCEPT ![b] = @ - 1] /\ sent[b] > 0
              /\ pending' = [pending EXCEPT ![b] = Tail(@)] /\ pending[b] # <<>>
              /\ \A d \in RoomNeeded(Head(pending[b])) : ~QueueFull(d)
              /\ \A d \in Boards : chan'[d] = chan[d] \/ \E m : chan'[d] = Append(chan[d], m)
         /\ PacketDecoder(b) =>
              /\ UNCHANGED <<pending, sent>>
              /\ received' = [received EXCEPT ![b] = @ - 1] /\ received[b] > 0
              /\ chan' = [chan EXCEPT ![b] = Tail(@)] /\ chan[b] # <<>>
         /\ TimestepReporter =>
              /\ UNCHANGED <<pending, sent, received>>
              /\ chan' = [chan EXCEPT ![Reporter] = Tail(@)]
<1>1. PacketConstructor(b) =>
        /\ UNCHANGED <<chan, sent, received>>
        /\ \E m : pending' = [pending EXCEPT ![b] = Append(@, m)]
  BY DEF PacketConstructor, Net!Put
<1>2. Route(b) =>
        /\ UNCHANGED received /\ sent' = [sent EXCEPT ![b] = @ - 1] /\ sent[b] > 0
        /\ pending' = [pending EXCEPT ![b] = Tail(@)] /\ pending[b] # <<>>
        /\ \A d \in RoomNeeded(Head(pending[b])) : ~QueueFull(d)
        /\ \A d \in Boards : chan'[d] = chan[d] \/ \E m : chan'[d] = Append(chan[d], m)
  BY DEF Route, Net!Send
<1>3. PacketDecoder(b) =>
        /\ UNCHANGED <<pending, sent>>
        /\ received' = [received EXCEPT ![b] = @ - 1] /\ received[b] > 0
        /\ chan' = [chan EXCEPT ![b] = Tail(@)] /\ chan[b] # <<>>
  BY DEF PacketDecoder, Net!Take
<1>4. TimestepReporter =>
        /\ UNCHANGED <<pending, sent, received>>
        /\ chan' = [chan EXCEPT ![Reporter] = Tail(@)]
  BY DEF TimestepReporter, Net!Take
<1>5. QED
  BY <1>1, <1>2, <1>3, <1>4

LEMMA FifoLengths ==
  ASSUME Typed, NEW b \in Boards
  PROVE  Out(b) \in Nat /\ In(b) \in Nat
BY DEF Typed, Sinks, Out, In

\* The lengths of the FIFOs a step leaves.
LEMMA Lengths ==
  ASSUME Typed, Typed', NEW b \in Boards, NEW c \in Boards
  PROVE  /\ PacketConstructor(b) =>
              Out(c)' = Out(c) + (IF c = b THEN 1 ELSE 0)
         /\ Route(b) =>
              /\ Out(c)' = Out(c) - (IF c = b THEN 1 ELSE 0)
              /\ In(c)' >= In(c)
         /\ PacketDecoder(b) =>
              In(c)' = In(c) - (IF c = b THEN 1 ELSE 0)
<1>1. /\ pending \in [Boards -> Seq(Pkts)] /\ pending' \in [Boards -> Seq(Pkts)]
      /\ chan \in [Sinks -> Seq(Pkts)] /\ chan' \in [Sinks -> Seq(Pkts)]
      /\ b \in Sinks /\ c \in Sinks
  BY DEF Typed, Sinks
<1>2. ASSUME PacketConstructor(b)
      PROVE  Out(c)' = Out(c) + (IF c = b THEN 1 ELSE 0)
  <2>1. PICK m : pending' = [pending EXCEPT ![b] = Append(@, m)]
    BY <1>2, NetSteps
  <2>2. CASE c = b
    <3>1. pending'[c] = Append(pending[c], m)
      BY <1>1, <2>1, <2>2
    <3>2. Len(Append(pending[c], m)) = Len(pending[c]) + 1
      BY <1>1
    <3>3. QED
      BY <2>2, <3>1, <3>2 DEF Out
  <2>3. CASE c # b
    BY <1>1, <2>1, <2>3 DEF Out
  <2>4. QED
    BY <2>2, <2>3
<1>3. ASSUME Route(b)
      PROVE  /\ Out(c)' = Out(c) - (IF c = b THEN 1 ELSE 0)
             /\ In(c)' >= In(c)
  <2>1. /\ pending' = [pending EXCEPT ![b] = Tail(@)] /\ pending[b] # <<>>
        /\ chan'[c] = chan[c] \/ \E m : chan'[c] = Append(chan[c], m)
    BY <1>3, NetSteps
  <2>2. Out(c)' = Out(c) - (IF c = b THEN 1 ELSE 0)
    BY <1>1, <2>1 DEF Out
  <2>3. ASSUME NEW m, chan'[c] = Append(chan[c], m) PROVE In(c)' >= In(c)
    BY <1>1, <2>3 DEF In
  <2>4. QED
    BY <1>1, <2>1, <2>2, <2>3 DEF In
<1>4. ASSUME PacketDecoder(b)
      PROVE  In(c)' = In(c) - (IF c = b THEN 1 ELSE 0)
  <2>1. chan' = [chan EXCEPT ![b] = Tail(@)] /\ chan[b] # <<>>
    BY <1>4, NetSteps
  <2>2. QED
    BY <1>1, <2>1 DEF In
<1>5. QED
  BY <1>2, <1>3, <1>4

LEMMA StepForwarded == Typed /\ Typed' /\ Forwarded /\ [Next]_vars => Forwarded'
<1> SUFFICES ASSUME Typed, Typed', Forwarded, [Next]_vars PROVE Forwarded'
  OBVIOUS
<1>1. /\ sent \in [Boards -> Nat] /\ received \in [Boards -> Nat]
      /\ \A c \in Boards : /\ sent[c] <= Out(c) /\ received[c] <= In(c)
                           /\ Out(c) \in Nat /\ In(c) \in Nat
  BY FifoLengths DEF Forwarded
<1>2. \A c \in Boards : Out(c)' \in Nat /\ In(c)' \in Nat
  BY DEF Out, In, Typed, Sinks
<1>3. ASSUME NEW b \in Boards, PacketConstructor(b) PROVE Forwarded'
  <2>1. UNCHANGED <<sent, received>> /\ \A c \in Boards : In(c)' = In(c)
    BY <1>3, NetSteps DEF In
  <2>2. \A c \in Boards : Out(c)' = Out(c) + (IF c = b THEN 1 ELSE 0)
    BY <1>3, Lengths
  <2>3. QED
    BY <1>1, <1>2, <2>1, <2>2 DEF Forwarded
<1>4. ASSUME NEW b \in Boards, Route(b) PROVE Forwarded'
  <2>1. UNCHANGED received /\ sent' = [sent EXCEPT ![b] = @ - 1] /\ sent[b] > 0
    BY <1>4, NetSteps
  <2>2. \A c \in Boards : /\ Out(c)' = Out(c) - (IF c = b THEN 1 ELSE 0)
                          /\ In(c)' >= In(c)
    BY <1>4, Lengths
  <2>3. QED
    BY <1>1, <1>2, <2>1, <2>2 DEF Forwarded
<1>5. ASSUME NEW b \in Boards, PacketDecoder(b) PROVE Forwarded'
  <2>1. /\ UNCHANGED sent /\ \A c \in Boards : Out(c)' = Out(c)
        /\ received' = [received EXCEPT ![b] = @ - 1] /\ received[b] > 0
    BY <1>5, NetSteps DEF Out
  <2>2. \A c \in Boards : In(c)' = In(c) - (IF c = b THEN 1 ELSE 0)
    BY <1>5, Lengths
  <2>3. QED
    BY <1>1, <1>2, <2>1, <2>2 DEF Forwarded
<1>6. ASSUME NEW b \in Boards, NEW rx \in BOOLEAN, ICController(b, rx) PROVE Forwarded'
  <2>1. \A c \in Boards : Out(c)' = Out(c) /\ In(c)' = In(c)
    BY <1>6 DEF ICController, Out, In
  <2>2. /\ rx => received[b] < In(b)
        /\ sent' = [sent EXCEPT ![b] = IF sent[b] < Out(b) THEN @ + 1 ELSE @]
        /\ received' = [received EXCEPT ![b] = IF rx THEN @ + 1 ELSE @]
    BY <1>6 DEF ICController, Out, In
  <2>3. sent' \in [Boards -> Nat] /\ \A c \in Boards : sent'[c] <= Out(c)
    BY <1>1, <2>2
  <2>4. received' \in [Boards -> Nat] /\ \A c \in Boards : received'[c] <= In(c)
    BY <1>1, <2>2
  <2>5. QED
    BY <2>1, <2>3, <2>4 DEF Forwarded
<1>7. CASE TimestepReporter
  <2>1. PICK b \in Boards : TRUE
    BY BoardAssumption
  <2>2. /\ UNCHANGED <<pending, sent, received>>
        /\ chan' = [chan EXCEPT ![Reporter] = Tail(@)]
    BY <1>7, <2>1, NetSteps
  <2>3. \A c \in Boards : chan'[c] = chan[c]
    BY <2>2, BoardAssumption DEF Typed, Sinks
  <2>4. QED
    BY <2>2, <2>3 DEF Forwarded, Out, In
<1>8. QED
  BY <1>3, <1>4, <1>5, <1>6, <1>7, OtherSteps, NetSame DEF NetStep

\* What fills the queue of a board of the set stays there: ICController of the
\* board takes nothing from it.
LEMMA StaysFull ==
  ASSUME Typed, Typed', Forwarded, NEW b \in Boards, NEW d \in Boards, QueueFull(d)
  PROVE  /\ PacketConstructor(b) \/ Route(b) \/ PacketDecoder(b) => QueueFull(d)'
         /\ \A rx \in BOOLEAN : ICController(b, rx) /\ d # b => QueueFull(d)'
<1>1. /\ d # Reporter /\ received \in [Boards -> Nat] /\ QueueRoom \in Nat
      /\ In(d) \in Nat /\ received[d] \in Nat /\ In(d) - received[d] >= QueueRoom
  BY FifoLengths, BoardAssumption DEF Forwarded, QueueFull, In
<1>2. In(d)' \in Nat
  BY DEF In, Typed, Sinks
<1>3. SUFFICES /\ PacketConstructor(b) \/ Route(b) \/ PacketDecoder(b) =>
                    In(d)' - received'[d] >= QueueRoom
               /\ \A rx \in BOOLEAN : ICController(b, rx) /\ d # b =>
                    In(d)' - received'[d] >= QueueRoom
  BY <1>1 DEF QueueFull, In
<1>4. CASE PacketConstructor(b)
  BY <1>1, <1>4, NetSteps DEF In
<1>5. CASE Route(b)
  <2>1. UNCHANGED received /\ In(d)' >= In(d)
    BY <1>5, NetSteps, Lengths
  <2>2. QED
    BY <1>1, <1>2, <2>1
<1>6. CASE PacketDecoder(b)
  <2>1. In(d)' = In(d) - (IF d = b THEN 1 ELSE 0)
    BY <1>6, Lengths
  <2>2. received' = [received EXCEPT ![b] = @ - 1]
    BY <1>6, NetSteps
  <2>3. QED
    BY <1>1, <2>1, <2>2
<1>7. ASSUME NEW rx \in BOOLEAN, ICController(b, rx), d # b
      PROVE  In(d)' - received'[d] >= QueueRoom
  <2>1. In(d)' = In(d) /\ received'[d] = received[d]
    BY <1>1, <1>7 DEF ICController, In
  <2>2. QED
    BY <1>1, <2>1
<1>8. QED
  BY <1>4, <1>5, <1>6, <1>7

\* One board of the set stays as it is.
WaitsIn(B, b) ==
  /\ sent[b] >= LinkRoom
  /\ \E d \in B \intersect RoomNeeded(Head(pending[b])) : QueueFull(d)

LEMMA StepGridlock ==
  Typed /\ Typed' /\ Forwarded /\ Gridlock /\ [Next]_vars => Gridlock'
<1> SUFFICES ASSUME Typed, Typed', Forwarded, Gridlock, [Next]_vars PROVE Gridlock'
  OBVIOUS
<1>1. PICK B \in SUBSET Boards \ {{}} : \A b \in B : WaitsIn(B, b)
  BY DEF Gridlock, WaitsIn
<1>2. SUFFICES \A b \in B : WaitsIn(B, b)'
  BY <1>1 DEF Gridlock, WaitsIn
<1>3. SUFFICES ASSUME NEW b \in B PROVE WaitsIn(B, b)'
  OBVIOUS
<1>4. PICK d \in B : d \in RoomNeeded(Head(pending[b])) /\ QueueFull(d)
  BY <1>1 DEF WaitsIn
<1>5. /\ b \in Boards /\ d \in Boards /\ LinkRoom \in Nat \ {0}
      /\ sent \in [Boards -> Nat] /\ sent[b] >= LinkRoom /\ sent[b] <= Len(pending[b])
      /\ pending[b] \in Seq(Pkts) /\ pending \in [Boards -> Seq(Pkts)]
  BY <1>1, <1>4, BoardAssumption DEF WaitsIn, Forwarded, Typed, Out
<1>6. pending[b] # <<>>
  BY <1>5
<1>7. ASSUME sent'[b] = sent[b], Head(pending'[b]) = Head(pending[b]), QueueFull(d)'
      PROVE  WaitsIn(B, b)'
  <2>1. RoomNeeded(Head(pending'[b])) = RoomNeeded(Head(pending[b]))
    BY <1>7
  <2>2. RoomNeeded(Head(pending[b]))' = RoomNeeded(Head(pending'[b]))
    BY DEF RoomNeeded
  <2>3. QED
    BY <1>4, <1>5, <1>7, <2>1, <2>2 DEF WaitsIn
<1>8. ASSUME NEW c \in Boards, PacketConstructor(c) PROVE WaitsIn(B, b)'
  <2>1. UNCHANGED sent /\ \E m : pending' = [pending EXCEPT ![c] = Append(@, m)]
    BY <1>8, NetSteps
  <2>2. ASSUME NEW m, pending' = [pending EXCEPT ![c] = Append(@, m)]
        PROVE  Head(pending'[b]) = Head(pending[b])
    <3>1. Head(Append(pending[b], m)) = Head(pending[b])
      BY <1>5, <1>6
    <3>2. QED
      BY <1>5, <2>2, <3>1
  <2>3. QED
    BY <1>4, <1>5, <1>7, <1>8, <2>1, <2>2, StaysFull
<1>9. ASSUME NEW c \in Boards, Route(c) PROVE WaitsIn(B, b)'
  <2>1. /\ sent' = [sent EXCEPT ![c] = @ - 1] /\ pending' = [pending EXCEPT ![c] = Tail(@)]
        /\ \A e \in RoomNeeded(Head(pending[c])) : ~QueueFull(e)
    BY <1>9, NetSteps
  <2>2. c # b
    BY <1>4, <2>1
  <2>3. sent'[b] = sent[b] /\ pending'[b] = pending[b]
    BY <1>5, <2>1, <2>2
  <2>4. QED
    BY <1>4, <1>5, <1>7, <1>9, <2>3, StaysFull
<1>10. ASSUME NEW c \in Boards, PacketDecoder(c) PROVE WaitsIn(B, b)'
  <2>1. UNCHANGED <<pending, sent>>
    BY <1>10, NetSteps
  <2>2. QED
    BY <1>4, <1>5, <1>7, <1>10, <2>1, StaysFull
<1>11. ASSUME NEW c \in Boards, NEW rx \in BOOLEAN, ICController(c, rx) PROVE WaitsIn(B, b)'
  <2>1. c \notin B
    BY <1>1, <1>11 DEF WaitsIn, ICController, ICStalled
  <2>2. sent'[b] = sent[b] /\ pending' = pending
    BY <1>5, <1>11, <2>1 DEF ICController
  <2>3. QED
    BY <1>4, <1>5, <1>7, <1>11, <2>1, <2>2, StaysFull
<1>12. CASE TimestepReporter
  <2>1. /\ UNCHANGED <<pending, sent, received>>
        /\ chan' = [chan EXCEPT ![Reporter] = Tail(@)]
    BY <1>5, <1>12, NetSteps
  <2>2. chan'[d] = chan[d] /\ d # Reporter
    BY <1>5, <2>1, BoardAssumption DEF Typed, Sinks
  <2>3. QueueFull(d)'
    BY <1>4, <2>1, <2>2 DEF QueueFull
  <2>4. QED
    BY <1>7, <2>1, <2>3
<1>13. CASE UNCHANGED net
  <2>1. QueueFull(d)' /\ UNCHANGED <<sent, pending>>
    BY <1>4, <1>13 DEF net, QueueFull
  <2>2. QED
    BY <1>7, <2>1
<1>14. QED
  BY <1>8, <1>9, <1>10, <1>11, <1>12, <1>13, OtherSteps DEF NetStep

-----------------------------------------------------------------------------
(* A board that missed the level DynFin waits for ever *)

CoresTyped == started \in [Boards -> Nat]

LEMMA StepCores == Typed /\ CoresTyped /\ [Next]_vars => CoresTyped'
<1> SUFFICES ASSUME Typed, CoresTyped, [Next]_vars PROVE CoresTyped'
  OBVIOUS
<1>1. ASSUME NEW b \in Boards, CoreStart(b) PROVE CoresTyped'
  BY <1>1 DEF CoreStart, CoresTyped, Typed
<1>2. ASSUME NEW b \in Boards, ~CoreStart(b), NEW d \in Boards, NEW rx \in BOOLEAN,
             \/ Environment(b) \/ SendAxon(b, d) \/ TSManager(b) \/ PacketConstructor(b)
             \/ ICController(b, rx) \/ Route(b) \/ PacketDecoder(b)
             \/ TimestepReporter \/ UNCHANGED vars
      PROVE  UNCHANGED started
  BY <1>2 DEF Environment, CoreFinish, PropagatorDone, SendAxon, TSManager, PacketConstructor,
              ICController, Route, PacketDecoder, TimestepReporter, vars, board
<1>3. CASE \E b \in Boards : CoreStart(b)
  BY <1>1, <1>3
<1>4. CASE \A b \in Boards : ~CoreStart(b)
  <2>1. \E b, d \in Boards, rx \in BOOLEAN :
          \/ Environment(b) \/ SendAxon(b, d) \/ TSManager(b) \/ PacketConstructor(b)
          \/ ICController(b, rx) \/ Route(b) \/ PacketDecoder(b)
          \/ TimestepReporter \/ UNCHANGED vars
    <3>1. PICK b \in Boards : TRUE
      BY BoardAssumption
    <3>2. TRUE \in BOOLEAN
      OBVIOUS
    <3>3. QED
      BY <3>1, <3>2, Zenon DEF Next, Environment
  <2>2. UNCHANGED started
    BY <1>2, <1>4, <2>1
  <2>3. QED
    BY <2>2 DEF CoresTyped
<1>5. QED
  BY <1>3, <1>4

\* TSManager of the board counts on, but never flips: its cores do not run
\* their timestep again.
LEMMA StepMissed ==
  ASSUME Typed, CoresTyped, [Next]_vars, NEW b \in Boards, Missed(b)
  PROVE  Missed(b)'
<1>1. /\ cur_timestep[b] > 0 /\ started[b] = cur_timestep[b] /\ dynfin[b] = TRUE
      /\ is_start[b] = FALSE
      /\ cur_timestep \in [Boards -> Nat] /\ started \in [Boards -> Nat]
      /\ dynfin \in [Boards -> BOOLEAN] /\ is_start \in [Boards -> BOOLEAN]
  BY DEF Missed, Typed, CoresTyped
<1>2. SUFFICES /\ cur_timestep'[b] = cur_timestep[b] /\ started'[b] = started[b]
               /\ dynfin'[b] = TRUE /\ is_start'[b] = FALSE
  BY <1>1 DEF Missed
<1>3. ASSUME NEW c \in Boards, CoreStart(c)
      PROVE  /\ cur_timestep'[b] = cur_timestep[b] /\ started'[b] = started[b]
             /\ dynfin'[b] = TRUE /\ is_start'[b] = FALSE
  <2>1. c # b
    BY <1>1, <1>3 DEF CoreStart
  <2>2. QED
    BY <1>1, <1>3, <2>1 DEF CoreStart, tsm
<1>4. ASSUME NEW c \in Boards, CoreFinish(c)
      PROVE  /\ cur_timestep'[b] = cur_timestep[b] /\ started'[b] = started[b]
             /\ dynfin'[b] = TRUE /\ is_start'[b] = FALSE
  BY <1>1, <1>4 DEF CoreFinish, tsm
<1>5. ASSUME NEW c \in Boards, TSManager(c)
      PROVE  /\ cur_timestep'[b] = cur_timestep[b] /\ started'[b] = started[b]
             /\ dynfin'[b] = TRUE /\ is_start'[b] = FALSE
  <2>1. c = b => ~Starts(c) /\ ~Flips(c)
    BY <1>1 DEF Starts, Flips
  <2>2. /\ is_start' = [is_start EXCEPT ![c] = Starts(c) /\ ~Flips(c)]
        /\ cur_timestep' = [cur_timestep EXCEPT ![c] = IF Flips(c) THEN @ + 1 ELSE @]
        /\ UNCHANGED <<started, dynfin>>
    BY <1>5 DEF TSManager
  <2>3. is_start'[b] = FALSE
    BY <1>1, <2>1, <2>2
  <2>4. cur_timestep'[b] = cur_timestep[b]
    BY <1>1, <2>1, <2>2
  <2>5. QED
    BY <1>1, <2>2, <2>3, <2>4
<1>6. ASSUME NEW c \in Boards, NEW d \in Boards, NEW rx \in BOOLEAN,
             \/ PropagatorDone(c) \/ SendAxon(c, d) \/ PacketConstructor(c)
             \/ ICController(c, rx) \/ Route(c) \/ PacketDecoder(c)
             \/ TimestepReporter \/ UNCHANGED vars
      PROVE  UNCHANGED <<cur_timestep, started, dynfin, is_start>>
  BY <1>6 DEF PropagatorDone, SendAxon, PacketConstructor, ICController, Route, PacketDecoder,
              TimestepReporter, vars, board, tsm
<1>7. CASE \E c \in Boards : CoreStart(c) \/ CoreFinish(c) \/ TSManager(c)
  BY <1>3, <1>4, <1>5, <1>7
<1>8. CASE \A c \in Boards : ~(CoreStart(c) \/ CoreFinish(c) \/ TSManager(c))
  <2>1. \E c, d \in Boards, rx \in BOOLEAN :
          \/ PropagatorDone(c) \/ SendAxon(c, d) \/ PacketConstructor(c)
          \/ ICController(c, rx) \/ Route(c) \/ PacketDecoder(c)
          \/ TimestepReporter \/ UNCHANGED vars
    <3>1. TRUE \in BOOLEAN
      OBVIOUS
    <3>2. QED
      BY <1>8, <3>1, Zenon DEF Next
  <2>2. UNCHANGED <<cur_timestep, started, dynfin, is_start>>
    BY <1>6, <2>1
  <2>3. QED
    BY <1>1, <2>2
<1>9. QED
  BY <1>7, <1>8

-----------------------------------------------------------------------------
(* What the barrier promises *)

LEMMA StepsInit == Steps!Init => Steps!Inv
BY DEF Steps!Init, Steps!Inv, Steps!TypeOK, Steps!Barrier

LEMMA StepsStep == Steps!Inv /\ [Steps!Next]_(Steps!vars) => Steps!Inv'
<1>1. SUFFICES ASSUME Steps!Inv, [Steps!Next]_(Steps!vars) PROVE Steps!Inv'
  OBVIOUS
<1>2. CASE UNCHANGED Steps!vars
  BY <1>1, <1>2 DEF Steps!vars, Steps!Inv, Steps!TypeOK, Steps!Barrier
<1>3. ASSUME NEW b \in Boards, Steps!Finish(b) PROVE Steps!Inv'
  BY <1>1, <1>3 DEF Steps!Finish, Steps!Inv, Steps!TypeOK, Steps!Barrier
<1>4. ASSUME NEW b \in Boards, Steps!Advance(b) PROVE Steps!Inv'
  BY <1>1, <1>4 DEF Steps!Advance, Steps!Inv, Steps!TypeOK, Steps!Barrier
<1>5. ASSUME NEW b \in Boards, Steps!FinishAndAdvance(b) PROVE Steps!Inv'
  BY <1>1, <1>5 DEF Steps!FinishAndAdvance, Steps!Inv, Steps!TypeOK, Steps!Barrier
<1>6. QED
  BY <1>1, <1>2, <1>3, <1>4, <1>5 DEF Steps!Next

LEMMA StepsParity == Steps!Inv => Steps!ParityIsEnough
<1>1. SUFFICES ASSUME Steps!Inv, NEW b \in Boards, NEW c \in Boards
               PROVE cur_timestep[b] <= cur_timestep[c] + 1
  BY DEF Steps!ParityIsEnough
<1>2. cur_timestep[b] <= done[c] /\ done[c] <= cur_timestep[c] + 1
  BY <1>1 DEF Steps!Inv, Steps!Barrier
<1>3. QED
  BY <1>1, <1>2 DEF Steps!Inv, Steps!TypeOK

-----------------------------------------------------------------------------
(* Theorems *)

\* TSManager and the reporter count ends with "==", so a counter that passes
\* num_boards never flips again.  No counter of a board passes it, and the
\* ends in front of TSManager are at most those of two timesteps, however the
\* ends of the boards are delayed.
THEOREM CountersNeverOverrun == Spec => []NoOverrun
BY Invariance, InvOverrun, PTL

\* TimestepReporter::Operation counts a timestep only when every board has
\* finished it, though it sees ends without looking at their boards.
THEOREM ReporterIsHonest == Spec => []ReporterHonest
BY Invariance, InvReporter, PTL

\* No board leaves a timestep while an axon of that timestep is on its way to
\* it, in front of a PacketConstructor, on a link or in a queue of the router.
THEOREM NoAxonIsLate == Spec => []NoStraggler
BY Invariance, InvStraggler, PTL

\* An axon is at most one timestep ahead of the board it goes to, so that one
\* bit of parity tells which timestep it belongs to.
THEOREM AxonsEarlyByOne == Spec => []EarlyByOneAtMost
BY Invariance, InvStraggler, PTL

\* The counters of TSManager, PacketDecoder and the router implement the
\* barrier: no board enters a timestep before all have finished the last one.
THEOREM BoardsImplementBarrier == Spec => ImplementsBarrier
BY Invariance, InitRefines, StepRefines, PTL DEF Spec, ImplementsBarrier, Steps!Spec, Steps!vars

\* Boards whose links and queues are full in a circle never get out of it:
\* ICController stalls in both directions while the link out is full, so a
\* board that the router takes nothing from takes nothing from the router.
THEOREM GridlockIsForever == Spec => [](Gridlock => []Gridlock)
<1>1. Inv => Typed
  BY DEF Inv, Queues
<1>2. Spec => [](Typed /\ Forwarded)
  BY Invariance, <1>1, InitForwarded, StepForwarded, PTL DEF Spec
<1>3. QED
  BY <1>2, StepGridlock, PTL DEF Spec

\* A board whose cores were through with their dynamics before its TSManager
\* saw them run never leaves that timestep.
THEOREM MissedIsForever == \A b \in Boards : Spec => [](Missed(b) => []Missed(b))
<1>1. SUFFICES ASSUME NEW b \in Boards PROVE Spec => [](Missed(b) => []Missed(b))
  OBVIOUS
<1>2. Inv => Typed
  BY DEF Inv, Queues
<1>3. Init => CoresTyped
  BY DEF Init, CoresTyped
<1>4. Spec => [](Typed /\ CoresTyped)
  BY Invariance, <1>2, <1>3, StepCores, PTL DEF Spec
<1>5. Typed /\ CoresTyped /\ [Next]_vars /\ Missed(b) => Missed(b)'
  BY StepMissed
<1>6. QED
  BY <1>4, <1>5, PTL DEF Spec

\* The barrier holds of whatever implements Timesteps: no board is ahead of a
\* board that has not finished the timestep before.
THEOREM BarrierHolds == Steps!Spec => []Steps!Barrier
<1>1. Steps!Inv => Steps!Barrier
  BY DEF Steps!Inv
<1>2. QED
  BY StepsInit, StepsStep, <1>1, PTL DEF Steps!Spec

\* Two boards are never more than one timestep apart, so the parity bit that
\* TSManager flips tells their timesteps apart.
THEOREM OneParityBit == Spec => []Steps!ParityIsEnough
<1>1. Steps!Spec => []Steps!ParityIsEnough
  BY StepsInit, StepsStep, StepsParity, PTL DEF Steps!Spec
<1>2. QED
  BY BoardsImplementBarrier, <1>1, PTL DEF ImplementsBarrier
===============================================================================
