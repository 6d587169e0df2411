-------------------------- MODULE SimulationProofs --------------------------
(***************************************************************************)
(* The loop of Simulator::Simulate keeps the endpoints within their        *)
(* capacities, for any clock domains, any wiring and any modules that pop  *)
(* only what they were shown.  A reader is checked for room when a message *)
(* enters the connection and gets it a clock of the pathway later: nothing *)
(* else is sent to it in between, whatever clocks run.  A writer is not    *)
(* checked at all when its message arrives: it is the stall of the module  *)
(* one clock of its own earlier that left the room, and the proof shows    *)
(* for which endpoints that is enough.                                     *)
(*                                                                         *)
(* The modules of a board of NeuroSim in fast mode and those of a core of  *)
(* the detailed mode are shown to be such.                                 *)
(***************************************************************************)
EXTENDS Simulation, NeuroSim, NeuroCore, Selection, SequenceTheorems

\* Messages are not typed: a queue is a sequence of whatever they are.
IsQueue(q) == \E S : q \in Seq(S)

LEMMA Appended ==
  ASSUME NEW q, IsQueue(q), NEW m
  PROVE  IsQueue(Append(q, m)) /\ Len(Append(q, m)) = Len(q) + 1 /\ Append(q, m) # <<>>
<1>1. PICK S : q \in Seq(S)
  BY DEF IsQueue
<1>2. q \in Seq(S \union {m}) /\ m \in S \union {m}
  BY <1>1
<1>3. Append(q, m) \in Seq(S \union {m}) /\ Len(Append(q, m)) = Len(q) + 1
  BY <1>2
<1>4. Append(q, m) # <<>>
  BY <1>3, <1>1
<1> QED BY <1>3, <1>4 DEF IsQueue

LEMMA Tailed ==
  ASSUME NEW q, IsQueue(q), q # <<>>
  PROVE  IsQueue(Tail(q)) /\ Len(Tail(q)) = Len(q) - 1 /\ Len(q) \in Nat \ {0}
<1>1. PICK S : q \in Seq(S)
  BY DEF IsQueue
<1>2. Tail(q) \in Seq(S) /\ Len(Tail(q)) = Len(q) - 1 /\ Len(q) \in Nat
  BY <1>1, HeadTailProperties, LenProperties
<1>3. Len(q) # 0
  BY <1>1, EmptySeq
<1> QED BY <1>2, <1>3 DEF IsQueue

LEMMA QueueLength ==
  ASSUME NEW q, IsQueue(q)
  PROVE  Len(q) \in Nat /\ (Len(q) = 0 <=> q = <<>>)
<1>1. PICK S : q \in Seq(S)
  BY DEF IsQueue
<1> QED BY <1>1, EmptySeq, LenProperties

LEMMA NoMessages == IsQueue(<<>>) /\ Len(<<>>) = 0
<1>1. <<>> \in Seq({})
  OBVIOUS
<1> QED BY <1>1 DEF IsQueue

-----------------------------------------------------------------------------
(* The inductive invariant *)

\* No reader has more messages than its endpoint takes, and the one in the
\* connection finds room with every reader it goes to.
ReadersHaveRoom ==
  \A w \in Wires : \A u \in Rhs[w] :
    /\ Len(rq[w][u]) <= RhsCap[w]
    /\ on[w] # <<>> /\ u \in DestOf(w, on[w][1]) => Len(rq[w][u]) < RhsCap[w]

\* No endpoint of a pipelined module has more messages than its capacity;
\* without one it passes a single message on.
WritersHaveRoom ==
  \A e \in Ends : PDepth[Writer(e[1], e[2])] > 0 =>
    Len(lq[e[1]][e[2]]) <= IF LhsCap[e[1]][e[2]] = 0 THEN 1 ELSE LhsCap[e[1]][e[2]]

\* What waits in the pipeline for the next PreClock is for an endpoint with a
\* capacity: the others get it one PreClock earlier.
HeldIsQueued ==
  \A e \in Ends :
    Port(e[1], e[2]) \in DOMAIN held[Writer(e[1], e[2])] => LhsCap[e[1]][e[2]] # 0

Typed ==
  /\ \A w \in Wires : sel[w] \in DOMAIN Lhs[w] /\ resv[w] \in Nat
  /\ \A w \in Wires : DOMAIN lq[w] = DOMAIN Lhs[w] /\ \A k \in DOMAIN Lhs[w] : IsQueue(lq[w][k])
  /\ \A w \in Wires : \A u \in Rhs[w] : IsQueue(rq[w][u])

IInv == Typed /\ ReadersHaveRoom /\ WritersHaveRoom /\ HeldIsQueued

-----------------------------------------------------------------------------
(* A clock *)

\* The parts of a clock of domain d.
Parts(d, ch, run, res, out) ==
  /\ run = Running(d) /\ ch \in Outside(d, state)
  /\ res = Results(run, Delivered(d), Assigned(run), ch)
  /\ out = Outputs(run, res)
  /\ Clocked(d, run, Delivered(d), Assigned(run), res, out, Filled(run, out, Assigned(run)))

LEMMA TickParts ==
  ASSUME NEW d \in Domains, Tick(d)
  PROVE  \E ch, run, res, out : Parts(d, ch, run, res, out)
BY ZenonT(60) DEF Tick, Parts

\* Module::PostClock pops the messages the Operation left in nextinmsgs; an
\* Operation can only clear an entry of it.
UsesWhatIsShown ==
  \A u \in Units : \A s, in, size, ch : Operation(u, s, in, size, ch).used \subseteq DOMAIN in

-----------------------------------------------------------------------------
(* The readers *)

LEMMA Delivery ==
  ASSUME Typed, ReadersHaveRoom, NEW d \in Domains, NEW w \in Wires, NEW u \in Rhs[w]
  PROVE  /\ IsQueue(Delivered(d)[w][u]) /\ Len(Delivered(d)[w][u]) <= RhsCap[w]
         /\ d \notin WireClock[w] => Delivered(d)[w][u] = rq[w][u]
<1>1. IsQueue(rq[w][u]) /\ Len(rq[w][u]) \in Nat /\ RhsCap[w] \in Nat
  BY QueueLength, WiringAssumption DEF Typed
<1>2. CASE d \notin WireClock[w] \/ on[w] = <<>> \/ u \notin DestOf(w, on[w][1])
  <2>1. Delivered(d)[w][u] = rq[w][u]
    BY <1>2, Zenon DEF Delivered
  <2> QED BY <1>1, <2>1 DEF ReadersHaveRoom
<1>3. CASE d \in WireClock[w] /\ on[w] # <<>> /\ u \in DestOf(w, on[w][1])
  <2>1. Delivered(d)[w][u] = Append(rq[w][u], on[w][1])
    BY <1>3, Zenon DEF Delivered
  <2>2. Len(rq[w][u]) < RhsCap[w]
    BY <1>3, Zenon DEF ReadersHaveRoom
  <2>3. IsQueue(Append(rq[w][u], on[w][1])) /\ Len(Append(rq[w][u], on[w][1])) = Len(rq[w][u]) + 1
    BY <1>1, Appended, Zenon
  <2> QED BY <1>1, <1>3, <2>1, <2>2, <2>3
<1> QED BY <1>2, <1>3

\* A module pops a message only from a queue that has one.
LEMMA Popping ==
  ASSUME UsesWhatIsShown, Typed, ReadersHaveRoom,
         NEW d \in Domains, NEW ch, NEW run, NEW res, NEW out, Parts(d, ch, run, res, out),
         NEW w \in Wires, NEW u \in Rhs[w]
  PROVE  IsQueue(rq'[w][u]) /\ Len(rq'[w][u]) <= Len(Delivered(d)[w][u])
<1> DEFINE q == Delivered(d)[w][u]
           in == Shown(u, Delivered(d), Stalled(u))
<1>1. rq'[w][u] = IF u \in run /\ w \in res[u].used THEN Tail(q) ELSE q
  BY Zenon DEF Parts, Clocked, Popped
<1>2. IsQueue(q)
  BY Delivery, Zenon
<1>3. CASE u \in run /\ w \in res[u].used
  <2>1. u \in Units
    BY <1>3, Zenon DEF Parts, Running, UnitsOf
  <2>2. res[u].used \subseteq DOMAIN in
    BY <1>3, <2>1, Zenon DEF Parts, Results, UsesWhatIsShown
  <2>3. w \notin Levels
    BY WiringAssumption
  <2>4. DOMAIN in = {v \in InWires[u] : Delivered(d)[v][u] # <<>> /\ ~Stalled(u)}
                    \union {l \in InLevels[u] : level'[l] # <<>>}
    BY Zenon DEF Shown
  <2>5. InLevels[u] \subseteq Levels
    BY <2>1 DEF InLevels
  <2>6. q # <<>>
    BY <1>3, <2>2, <2>3, <2>4, <2>5
  <2>7. IsQueue(Tail(q)) /\ Len(Tail(q)) = Len(q) - 1 /\ Len(q) \in Nat
    <3> HIDE DEF q
    <3> QED BY <1>2, <2>6, Tailed
  <2>8. rq'[w][u] = Tail(q)
    BY <1>1, <1>3, Zenon
  <2>9. IsQueue(rq'[w][u]) /\ Len(rq'[w][u]) <= Len(q)
    <3> HIDE DEF q
    <3> QED BY <2>7, <2>8
  <2> QED BY <2>9, Zenon
<1>4. CASE ~ (u \in run /\ w \in res[u].used)
  <2>1. rq'[w][u] = q /\ Len(q) \in Nat
    <3>1. rq'[w][u] = q
      BY <1>1, <1>4, Zenon
    <3>2. Len(q) \in Nat
      <4> HIDE DEF q
      <4> QED BY <1>2, QueueLength
    <3> QED BY <3>1, <3>2
  <2>2. IsQueue(rq'[w][u]) /\ Len(rq'[w][u]) <= Len(q)
    <3> HIDE DEF q
    <3> QED BY <1>2, <2>1
  <2> QED BY <2>2, Zenon
<1> QED BY <1>3, <1>4, Zenon

LEMMA ReadersStep ==
  ASSUME UsesWhatIsShown, Typed, ReadersHaveRoom,
         NEW d \in Domains, NEW ch, NEW run, NEW res, NEW out, Parts(d, ch, run, res, out)
  PROVE  ReadersHaveRoom'
<1> SUFFICES ASSUME NEW w \in Wires, NEW u \in Rhs[w]
             PROVE  /\ Len(rq'[w][u]) <= RhsCap[w]
                    /\ on'[w] # <<>> /\ u \in DestOf(w, on'[w][1]) => Len(rq'[w][u]) < RhsCap[w]
  BY Zenon DEF ReadersHaveRoom
<1> DEFINE q == Delivered(d)[w][u]
           sent == Issued(d, Filled(run, out, Assigned(run)))
<1>1. IsQueue(rq'[w][u]) /\ Len(rq'[w][u]) <= Len(q)
  BY Popping, Zenon
<1>2. Len(rq'[w][u]) \in Nat /\ Len(q) \in Nat /\ RhsCap[w] \in Nat /\ Len(q) <= RhsCap[w]
  <2>1. IsQueue(q) /\ Len(q) <= RhsCap[w]
    BY Delivery, Zenon
  <2> HIDE DEF q
  <2> QED BY <1>1, <2>1, QueueLength, WiringAssumption
<1>3. Len(rq'[w][u]) <= RhsCap[w]
  <2> HIDE DEF q
  <2> QED BY <1>1, <1>2
<1>4. ASSUME on'[w] # <<>>, u \in DestOf(w, on'[w][1])
      PROVE  Len(rq'[w][u]) < RhsCap[w]
  <2>1. on'[w] = IF d \in WireClock[w] THEN sent[w] ELSE on[w]
    BY Zenon DEF Parts, Clocked
  <2>2. CASE d \in WireClock[w]
    <3> DEFINE queue == Filled(run, out, Assigned(run))[w][sel[w]]
    <3>1. on'[w] = IF /\ d \in WireClock[w] /\ queue # <<>>
                      /\ \A v \in DestOf(w, Head(queue)) : Len(rq'[w][v]) < RhsCap[w]
                   THEN <<Head(queue)>> ELSE <<>>
      BY <2>1, <2>2, Zenon DEF Issued
    <3>2. /\ on'[w] = <<Head(queue)>>
          /\ \A v \in DestOf(w, Head(queue)) : Len(rq'[w][v]) < RhsCap[w]
      <4> HIDE DEF queue
      <4> QED BY <1>4, <3>1, Zenon
    <3> HIDE DEF queue
    <3>3. on'[w][1] = Head(queue)
      BY <3>2
    <3> QED BY <1>4, <3>2, <3>3, Zenon
  <2>3. CASE d \notin WireClock[w]
    <3>1. on'[w] = on[w]
      BY <2>1, <2>3, Zenon
    <3>2. q = rq[w][u]
      BY <2>3, Delivery, Zenon
    <3>3. Len(rq[w][u]) < RhsCap[w]
      BY <1>4, <3>1, Zenon DEF ReadersHaveRoom
    <3>4. Len(q) < RhsCap[w]
      BY <3>2, <3>3, Zenon
    <3> HIDE DEF q
    <3> QED BY <1>1, <1>2, <3>4
  <2> QED BY <2>2, <2>3
<1> QED BY <1>3, <1>4

-----------------------------------------------------------------------------
(* The writers *)

LEMMA EndPort ==
  ASSUME NEW w \in Wires, NEW k \in DOMAIN Lhs[w]
  PROVE  <<w, k>> \in Ends /\ <<w, k>> \in OutEnds[Writer(w, k)] /\ LhsCap[w][k] \in Nat
<1>1. <<w, k>> \in Ends
  BY DEF Ends
<1>2. Writer(w, k) \in Units
  BY WiringAssumption, Zenon
<1>3. <<w, k>> \in OutEnds[Writer(w, k)]
  BY <1>1, <1>2 DEF OutEnds
<1> QED BY <1>1, <1>3, WiringAssumption

\* A clock leaves a module with pdepth > 0 stalled, or it had room everywhere.
LEMMA RunsWithRoom ==
  ASSUME NEW d \in Domains, NEW w \in Wires, NEW k \in DOMAIN Lhs[w],
         Writer(w, k) \in Running(d), PDepth[Writer(w, k)] > 0
  PROVE  ~Blocked(w, k)
<1>1. PDepth[Writer(w, k)] # 0
  BY WiringAssumption, ClockAssumption
<1>2. Writer(w, k) \in UnitsOf[d] /\ ~Stalled(Writer(w, k))
  BY <1>1, Zenon DEF Running
<1>3. \A e \in OutEnds[Writer(w, k)] : ~Blocked(e[1], e[2])
  BY <1>2, Zenon DEF Stalled
<1>4. <<w, k>>[1] = w /\ <<w, k>>[2] = k
  OBVIOUS
<1> QED BY <1>3, <1>4, EndPort, Zenon

\* A port is that of one endpoint.
LEMMA QueuedPort ==
  ASSUME NEW w \in Wires, NEW k \in DOMAIN Lhs[w], Port(w, k) \in QueuedPorts(Writer(w, k))
  PROVE  LhsCap[w][k] # 0
<1> DEFINE u == Writer(w, k)
<1>1. PICK e \in OutEnds[u] : LhsCap[e[1]][e[2]] # 0 /\ Port(e[1], e[2]) = Port(w, k)
  BY Zenon DEF QueuedPorts
<1>2. u \in Units
  BY WiringAssumption, Zenon
<1>3. e \in Ends /\ Writer(e[1], e[2]) = u
  BY <1>1, <1>2 DEF OutEnds
<1>4. PICK v \in Wires : \E j \in DOMAIN Lhs[v] : e = <<v, j>>
  BY <1>3, Zenon DEF Ends
<1>5. PICK j \in DOMAIN Lhs[v] : e = <<v, j>>
  BY <1>4
<1>6. v = w /\ j = k
  <2>1. Writer(v, j) = Writer(w, k) /\ Port(v, j) = Port(w, k)
    BY <1>1, <1>3, <1>5
  <2> QED BY <2>1, WiringAssumption
<1> QED BY <1>1, <1>5, <1>6

LEMMA HeldStep ==
  ASSUME HeldIsQueued,
         NEW d \in Domains, NEW ch, NEW run, NEW res, NEW out, Parts(d, ch, run, res, out)
  PROVE  HeldIsQueued'
<1> SUFFICES ASSUME NEW w \in Wires, NEW k \in DOMAIN Lhs[w],
                    Port(w, k) \in DOMAIN held'[Writer(w, k)]
             PROVE  LhsCap[w][k] # 0
  BY DEF HeldIsQueued, Ends
<1> DEFINE u == Writer(w, k)
<1>1. u \in Units
  BY WiringAssumption, Zenon
<1>2. held'[u] = IF u \in run THEN [p \in DOMAIN out[u] \intersect QueuedPorts(u) |-> out[u][p]]
                 ELSE held[u]
  BY <1>1, Zenon DEF Parts, Clocked
<1>3. CASE u \in run
  <2>1. Port(w, k) \in QueuedPorts(u)
    <3> HIDE DEF u
    <3>1. DOMAIN held'[u] = DOMAIN out[u] \intersect QueuedPorts(u)
      BY <1>2, <1>3, Zenon
    <3>2. Port(w, k) \in DOMAIN held'[u]
      BY DEF u
    <3> QED BY <3>1, <3>2, Zenon
  <2> QED BY <2>1, QueuedPort
<1>4. CASE u \notin run
  <2>1. Port(w, k) \in DOMAIN held[u]
    BY <1>2, <1>4, Zenon
  <2>2. <<w, k>> \in Ends /\ <<w, k>>[1] = w /\ <<w, k>>[2] = k
    BY EndPort
  <2> QED BY <2>1, <2>2, Zenon DEF HeldIsQueued
<1> QED BY <1>3, <1>4

LEMMA Assigning ==
  ASSUME Typed, NEW go, NEW w \in Wires, NEW k \in DOMAIN Lhs[w]
  PROVE  /\ IsQueue(Assigned(go)[w][k]) /\ Len(lq[w][k]) \in Nat
         /\ Len(Assigned(go)[w][k]) <= Len(lq[w][k]) + 1
         /\ ~Leaving(go, w, k) => Assigned(go)[w][k] = lq[w][k]
<1> DEFINE q == lq[w][k]
           grown == Append(q, HeldAt(w, k))
<1>1. k \in DOMAIN lq[w] /\ IsQueue(q)
  BY Zenon DEF Typed
<1>2. Assigned(go)[w][k] = IF Leaving(go, w, k) /\ ~IsReserve(HeldAt(w, k)) THEN grown ELSE q
  BY <1>1, Zenon DEF Assigned
<1>3. IsQueue(grown) /\ Len(grown) = Len(q) + 1 /\ Len(q) \in Nat
  <2> HIDE DEF q
  <2> QED BY <1>1, Appended, QueueLength
<1>4. Len(q) <= Len(q) + 1 /\ Len(grown) <= Len(q) + 1
  BY <1>3
<1>5. CASE Assigned(go)[w][k] = q
  BY <1>1, <1>3, <1>4, <1>5, Zenon
<1>6. CASE Leaving(go, w, k) /\ Assigned(go)[w][k] = grown
  BY <1>3, <1>4, <1>6, Zenon
<1> QED BY <1>2, <1>5, <1>6, Zenon

\* An endpoint with a capacity is never sent a message ahead of time.
LEMMA Filling ==
  ASSUME Typed, NEW go, NEW out, NEW w \in Wires, NEW k \in DOMAIN Lhs[w]
  PROVE  LET pushed == Assigned(go)[w][k]
             q == Filled(go, out, Assigned(go))[w][k]
         IN /\ IsQueue(q) /\ Len(pushed) \in Nat /\ Len(q) <= Len(pushed) + 1
            /\ LhsCap[w][k] # 0 \/ Writer(w, k) \notin go => q = pushed
<1> DEFINE pushed == Assigned(go)[w][k]
           grown == Append(pushed, out[Writer(w, k)][Port(w, k)])
           q == Filled(go, out, Assigned(go))[w][k]
<1>1. k \in DOMAIN lq[w] /\ IsQueue(pushed)
  BY Assigning, Zenon DEF Typed
<1>2. q = IF Ahead(go, out, w, k) THEN grown ELSE pushed
  BY <1>1, Zenon DEF Filled
<1>3. IsQueue(grown) /\ Len(grown) = Len(pushed) + 1 /\ Len(pushed) \in Nat
  <2> HIDE DEF pushed
  <2> QED BY <1>1, Appended, QueueLength
<1>4. Len(pushed) <= Len(pushed) + 1 /\ Len(grown) <= Len(pushed) + 1
  <2> HIDE DEF pushed, grown
  <2> QED BY <1>3
<1>5. Ahead(go, out, w, k) => LhsCap[w][k] = 0 /\ Writer(w, k) \in go
  BY Zenon DEF Ahead
<1>6. CASE Ahead(go, out, w, k)
  BY <1>2, <1>3, <1>4, <1>5, <1>6, Zenon
<1>7. CASE ~Ahead(go, out, w, k)
  BY <1>1, <1>2, <1>3, <1>4, <1>7, Zenon
<1> QED BY <1>6, <1>7, Zenon

\* The connection takes at most one message of a queue, and of one only.
LEMMA Issuing ==
  ASSUME Typed, NEW d \in Domains, NEW ch, NEW run, NEW res, NEW out,
         Parts(d, ch, run, res, out), NEW w \in Wires
  PROVE  /\ DOMAIN lq'[w] = DOMAIN Lhs[w]
         /\ \A k \in DOMAIN Lhs[w] :
              /\ IsQueue(lq'[w][k])
              /\ Len(lq'[w][k]) <= Len(Filled(run, out, Assigned(run))[w][k])
<1> DEFINE filled == Filled(run, out, Assigned(run))
           sent == Issued(d, filled)
<1>1. lq'[w] = IF sent[w] = <<>> THEN filled[w] ELSE [filled[w] EXCEPT ![sel[w]] = Tail(@)]
  <2>1. lq' = Remaining(filled, sent)
    BY Zenon DEF Parts, Clocked
  <2> HIDE DEF filled, sent
  <2> QED BY <2>1, Zenon DEF Remaining
<1>2. DOMAIN filled[w] = DOMAIN Lhs[w]
  BY Zenon DEF Filled, Typed
<1>3. sent[w] # <<>> => filled[w][sel[w]] # <<>>
  BY Zenon DEF Issued
<1>4. ASSUME NEW k \in DOMAIN Lhs[w] PROVE IsQueue(filled[w][k])
  BY Filling, Zenon
<1> HIDE DEF sent, filled
<1>5. DOMAIN lq'[w] = DOMAIN Lhs[w]
  BY <1>1, <1>2, Zenon
<1>6. ASSUME NEW k \in DOMAIN Lhs[w]
      PROVE  IsQueue(lq'[w][k]) /\ Len(lq'[w][k]) <= Len(filled[w][k])
  <2> DEFINE q == filled[w][k]
  <2>1. IsQueue(q)
    BY <1>4
  <2> HIDE DEF q
  <2>2. Len(q) \in Nat
    BY <2>1, QueueLength
  <2>3. lq'[w][k] = q \/ (q # <<>> /\ lq'[w][k] = Tail(q))
    BY <1>1, <1>2, <1>3, Zenon DEF q
  <2>4. CASE lq'[w][k] = q
    <3>1. IsQueue(lq'[w][k]) /\ Len(lq'[w][k]) <= Len(q)
      BY <2>1, <2>2, <2>4
    <3> QED BY <3>1 DEF q
  <2>5. CASE q # <<>> /\ lq'[w][k] = Tail(q)
    <3>1. IsQueue(Tail(q)) /\ Len(Tail(q)) = Len(q) - 1
      BY <2>1, <2>5, Tailed
    <3>2. IsQueue(lq'[w][k]) /\ Len(lq'[w][k]) <= Len(q)
      BY <2>2, <2>5, <3>1
    <3> QED BY <3>2 DEF q
  <2> QED BY <2>3, <2>4, <2>5
<1> QED BY <1>5, <1>6 DEF filled

\* The messages waiting, the reserved room and the one that comes next fit.
LEMMA RoomToAssign ==
  ASSUME Typed, NEW d \in Domains, NEW w \in Wires, NEW k \in DOMAIN Lhs[w],
         Writer(w, k) \in Running(d), PDepth[Writer(w, k)] > 0, LhsCap[w][k] # 0
  PROVE  Len(Assigned(Running(d))[w][k]) <= LhsCap[w][k]
<1>1. ~Blocked(w, k)
  BY RunsWithRoom
<1>2. LhsCap[w][k] \in Nat
  BY EndPort, Zenon
<1>3. resv[w] \in Nat
  BY Zenon DEF Typed
<1>4. Len(lq[w][k]) \in Nat
  BY Assigning, Zenon
<1>5. Len(Assigned(Running(d))[w][k]) \in Nat
  BY Assigning, QueueLength, Zenon
<1>6. Len(Assigned(Running(d))[w][k]) <= Len(lq[w][k]) + 1
  BY Assigning, Zenon
<1>7. ~ (Len(lq[w][k]) + resv[w] >= LhsCap[w][k])
  BY <1>1, Zenon DEF Blocked
<1> QED BY <1>2, <1>3, <1>4, <1>5, <1>6, <1>7

LEMMA WritersStep ==
  ASSUME Typed, WritersHaveRoom, HeldIsQueued,
         NEW d \in Domains, NEW ch, NEW run, NEW res, NEW out, Parts(d, ch, run, res, out)
  PROVE  WritersHaveRoom'
<1> SUFFICES ASSUME NEW w \in Wires, NEW k \in DOMAIN Lhs[w], PDepth[Writer(w, k)] > 0
             PROVE  Len(lq'[w][k]) <= IF LhsCap[w][k] = 0 THEN 1 ELSE LhsCap[w][k]
  BY DEF WritersHaveRoom, Ends
<1> DEFINE pushed == Assigned(run)[w][k]
           filled == Filled(run, out, Assigned(run))[w][k]
           cap == LhsCap[w][k]
<1>1. run = Running(d)
  BY DEF Parts
<1>2. cap \in Nat /\ <<w, k>> \in Ends /\ <<w, k>>[1] = w /\ <<w, k>>[2] = k
  BY EndPort
<1>3. /\ Len(lq'[w][k]) \in Nat /\ Len(filled) \in Nat /\ Len(pushed) \in Nat /\ Len(lq[w][k]) \in Nat
      /\ Len(lq'[w][k]) <= Len(filled) /\ Len(filled) <= Len(pushed) + 1
  <2>1. Len(lq[w][k]) \in Nat
    BY Assigning, Zenon
  <2>2. IsQueue(filled) /\ Len(pushed) \in Nat /\ Len(filled) <= Len(pushed) + 1
    BY Filling, Zenon
  <2>3. IsQueue(lq'[w][k]) /\ Len(lq'[w][k]) <= Len(filled)
    BY Issuing, Zenon
  <2>4. Len(filled) \in Nat /\ Len(lq'[w][k]) \in Nat
    BY <2>2, <2>3, QueueLength, Zenon
  <2> QED BY <2>1, <2>2, <2>3, <2>4, Zenon
<1>4. CASE cap # 0 /\ Writer(w, k) \in run
  <2>1. filled = pushed
    BY <1>4, Filling, Zenon
  <2>2. Len(pushed) <= cap
    BY <1>1, <1>4, RoomToAssign
  <2> HIDE DEF filled, pushed
  <2>3. Len(lq'[w][k]) <= cap
    BY <1>2, <1>3, <2>1, <2>2
  <2> QED BY <1>4, <2>3, Zenon
<1>5. CASE cap = 0 /\ Writer(w, k) \in run
  <2>1. ~Blocked(w, k)
    BY <1>1, <1>5, RunsWithRoom
  <2>2. lq[w][k] = <<>>
    BY <1>5, <2>1, Zenon DEF Blocked
  <2>3. ~Leaving(run, w, k)
    BY <1>2, <1>5, Zenon DEF Leaving, HeldIsQueued
  <2>4. pushed = lq[w][k]
    BY <2>3, Assigning, Zenon
  <2> HIDE DEF filled, pushed
  <2>5. Len(pushed) = 0
    BY <2>2, <2>4, NoMessages
  <2>6. Len(lq'[w][k]) <= 1
    BY <1>3, <2>5
  <2> QED BY <1>5, <2>6, Zenon
<1>6. CASE Writer(w, k) \notin run
  <2>1. filled = pushed
    BY <1>6, Filling, Zenon
  <2>2. ~Leaving(run, w, k)
    BY <1>6, Zenon DEF Leaving
  <2>3. pushed = lq[w][k]
    BY <2>2, Assigning, Zenon
  <2>4. Len(lq[w][k]) <= IF cap = 0 THEN 1 ELSE cap
    BY <1>2 DEF WritersHaveRoom
  <2> DEFINE most == IF cap = 0 THEN 1 ELSE cap
  <2>5. most \in Nat
    BY <1>2
  <2>6. Len(lq[w][k]) <= most
    BY <2>4
  <2> HIDE DEF filled, pushed, most
  <2>7. Len(lq'[w][k]) <= most
    BY <1>3, <2>1, <2>3, <2>5, <2>6
  <2> QED BY <2>7 DEF most
<1> QED BY <1>4, <1>5, <1>6

\* The next LHS is one of the pathway.
LEMMA Turn ==
  ASSUME NEW w \in Wires, sel[w] \in DOMAIN Lhs[w]
  PROVE  NextSel(w) \in DOMAIN Lhs[w]
<1> DEFINE n == Len(Lhs[w])
           at(i) == ((sel[w] + i - 1) % n) + 1
           taken == {i \in 1..n : LhsCap[w][at(i)] = 0 \/ lq'[w][at(i)] # <<>>}
           first == CHOOSE i \in taken : \A j \in taken : i <= j
<1>1. n \in Nat \ {0} /\ DOMAIN Lhs[w] = 1..n
  BY WiringAssumption, Zenon
<1>2. NextSel(w) = IF taken = {} THEN sel[w] ELSE at(first)
  BY Zenon DEF NextSel
<1>3. taken \in SUBSET Nat
  BY <1>1
<1>4. ASSUME taken # {} PROVE first \in Nat
  <2>1. \E i \in taken : \A j \in taken : i <= j
    <3> HIDE DEF taken
    <3> QED BY <1>3, <1>4, LeastNat, Zenon
  <2>2. first \in taken
    <3> HIDE DEF taken
    <3> QED BY <2>1
  <2> HIDE DEF taken, first
  <2> QED BY <1>3, <2>2
<1>5. ASSUME NEW i \in Nat PROVE at(i) \in 1..n
  <2> HIDE DEF n
  <2>1. sel[w] \in 1..n
    BY <1>1
  <2>2. sel[w] + i - 1 \in Nat
    BY <1>1, <2>1
  <2>3. (sel[w] + i - 1) % n \in 0..(n - 1)
    BY <1>1, <2>2
  <2> QED BY <1>1, <2>3
<1> HIDE DEF taken, first, at
<1>6. CASE taken = {}
  BY <1>2, <1>6, Zenon
<1>7. CASE taken # {}
  BY <1>1, <1>2, <1>4, <1>5, <1>7
<1> QED BY <1>6, <1>7

LEMMA TypedStep ==
  ASSUME UsesWhatIsShown, Typed, ReadersHaveRoom,
         NEW d \in Domains, NEW ch, NEW run, NEW res, NEW out, Parts(d, ch, run, res, out)
  PROVE  Typed'
<1>1. ASSUME NEW w \in Wires PROVE sel'[w] \in DOMAIN Lhs[w]
  <2>1. sel[w] \in DOMAIN Lhs[w]
    BY Zenon DEF Typed
  <2>2. sel'[w] = IF d \in WireClock[w] THEN NextSel(w) ELSE sel[w]
    BY Zenon DEF Parts, Clocked
  <2> QED BY <2>1, <2>2, Turn, Zenon
<1>2. ASSUME NEW w \in Wires PROVE resv'[w] \in Nat
  <2>1. resv[w] \in Nat
    BY Zenon DEF Typed
  <2>2. resv' = Reserved(run)
    BY Zenon DEF Parts, Clocked
  <2>3. \/ resv'[w] = resv[w] + ReserveStep
        \/ resv[w] > 0 /\ resv'[w] = resv[w] - 1
        \/ resv'[w] = resv[w]
    BY <2>2, Zenon DEF Reserved
  <2> QED BY <2>1, <2>3, ClockAssumption
<1>3. ASSUME NEW w \in Wires
      PROVE  DOMAIN lq'[w] = DOMAIN Lhs[w] /\ \A k \in DOMAIN Lhs[w] : IsQueue(lq'[w][k])
  BY Issuing, Zenon
<1>4. ASSUME NEW w \in Wires, NEW u \in Rhs[w] PROVE IsQueue(rq'[w][u])
  BY Popping, Zenon
<1> QED BY <1>1, <1>2, <1>3, <1>4, Zenon DEF Typed

-----------------------------------------------------------------------------
(* The invariant holds *)

LEMMA InitIInv == Init => IInv
<1> SUFFICES ASSUME Init PROVE IInv
  OBVIOUS
<1>1. ASSUME NEW w \in Wires
      PROVE  /\ sel[w] \in DOMAIN Lhs[w] /\ resv[w] \in Nat /\ on[w] = <<>>
             /\ DOMAIN lq[w] = DOMAIN Lhs[w] /\ \A k \in DOMAIN Lhs[w] : lq[w][k] = <<>>
             /\ \A u \in Rhs[w] : rq[w][u] = <<>>
  <2>1. 1 \in DOMAIN Lhs[w]
    BY WiringAssumption
  <2>2. sel[w] = 1 /\ resv[w] = 0 /\ on[w] = <<>>
        /\ lq[w] = [k \in DOMAIN Lhs[w] |-> <<>>] /\ rq[w] = [u \in Rhs[w] |-> <<>>]
    BY Zenon DEF Init
  <2> QED BY <2>1, <2>2
<1>2. Typed
  BY <1>1, NoMessages, Zenon DEF Typed
<1>3. ReadersHaveRoom
  <2> SUFFICES ASSUME NEW w \in Wires, NEW u \in Rhs[w]
               PROVE  Len(rq[w][u]) <= RhsCap[w] /\ on[w] = <<>>
    BY Zenon DEF ReadersHaveRoom
  <2>1. Len(rq[w][u]) = 0 /\ RhsCap[w] \in Nat
    BY <1>1, NoMessages, WiringAssumption
  <2> QED BY <1>1, <2>1
<1>4. WritersHaveRoom
  <2> SUFFICES ASSUME NEW w \in Wires, NEW k \in DOMAIN Lhs[w]
               PROVE  Len(lq[w][k]) <= IF LhsCap[w][k] = 0 THEN 1 ELSE LhsCap[w][k]
    BY DEF WritersHaveRoom, Ends
  <2>1. Len(lq[w][k]) = 0 /\ LhsCap[w][k] \in Nat
    BY <1>1, NoMessages, EndPort
  <2> QED BY <2>1
<1>5. HeldIsQueued
  <2> SUFFICES ASSUME NEW w \in Wires, NEW k \in DOMAIN Lhs[w]
               PROVE  Port(w, k) \notin DOMAIN held[Writer(w, k)]
    BY DEF HeldIsQueued, Ends
  <2>1. held[Writer(w, k)] = None
    BY WiringAssumption, Zenon DEF Init
  <2> QED BY <2>1 DEF None
<1> QED BY <1>2, <1>3, <1>4, <1>5 DEF IInv

LEMMA NextIInv ==
  ASSUME UsesWhatIsShown
  PROVE  IInv /\ [Next]_vars => IInv'
<1> SUFFICES ASSUME IInv, [Next]_vars PROVE IInv'
  OBVIOUS
<1>1. CASE Next
  <2>1. PICK d \in Domains : Tick(d)
    BY <1>1, Zenon DEF Next
  <2>2. PICK ch, run, res, out : Parts(d, ch, run, res, out)
    BY <2>1, TickParts, Zenon
  <2>3. Typed /\ ReadersHaveRoom /\ WritersHaveRoom /\ HeldIsQueued
    BY DEF IInv
  <2>4. Typed'
    BY <2>2, <2>3, TypedStep, Zenon
  <2>5. ReadersHaveRoom'
    BY <2>2, <2>3, ReadersStep, Zenon
  <2>6. WritersHaveRoom'
    BY <2>2, <2>3, WritersStep, Zenon
  <2>7. HeldIsQueued'
    BY <2>2, <2>3, HeldStep, Zenon
  <2> QED BY <2>4, <2>5, <2>6, <2>7, Zenon DEF IInv
<1>2. CASE UNCHANGED vars
  BY <1>2, Zenon DEF vars, net, IInv, Typed, ReadersHaveRoom, WritersHaveRoom, HeldIsQueued
<1> QED BY <1>1, <1>2

\* Whatever the modules do and whenever their clocks come, no reader is sent
\* more messages than its endpoint takes: Pathway::PostClock asks every reader
\* for room one clock of the pathway before the message gets there, and the
\* clocks of the readers in between only make room.
THEOREM ReadersNeverOverrun ==
  ASSUME UsesWhatIsShown
  PROVE  Spec => []ReadersHaveRoom
<1>1. Init => IInv
  BY InitIInv
<1>2. IInv /\ [Next]_vars => IInv'
  BY NextIInv
<1>3. IInv => ReadersHaveRoom
  BY DEF IInv
<1> QED BY <1>1, <1>2, <1>3, PTL DEF Spec

\* The endpoints a module with pdepth > 0 writes stay within their capacity,
\* though Endpoint::Assign comes one clock after the check of Module::PreClock:
\* it stalls for the room it needs next, reserved room included, and what is
\* for an endpoint without capacity is never left in the pipeline.
THEOREM WritersNeverOverrun ==
  ASSUME UsesWhatIsShown
  PROVE  Spec => []WritersHaveRoom
<1>1. Init => IInv
  BY InitIInv
<1>2. IInv /\ [Next]_vars => IInv'
  BY NextIInv
<1>3. IInv => WritersHaveRoom
  BY DEF IInv
<1> QED BY <1>1, <1>2, <1>3, PTL DEF Spec

-----------------------------------------------------------------------------
(* The SYSTEM_ERROR of an Assign *)

\* A module that may run while it is stalled, or one that reserves room, has a
\* message for the endpoint.
ReservesOrIgnoresStalls ==
  \E w \in Wires : \E k \in DOMAIN Lhs[w] :
    /\ Port(w, k) \in DOMAIN held[Writer(w, k)]
    /\ PDepth[Writer(w, k)] = 0 \/ IsReserve(HeldAt(w, k))

OnlyThoseOverflow == [][fault' /\ ~fault => ReservesOrIgnoresStalls]_vars

LEMMA OverflowStep ==
  ASSUME Typed, HeldIsQueued,
         NEW d \in Domains, NEW ch, NEW run, NEW res, NEW out, Parts(d, ch, run, res, out),
         fault', ~fault
  PROVE  ReservesOrIgnoresStalls
<1>1. run = Running(d) /\ Overflows(run, Assigned(run))
  BY Zenon DEF Parts, Clocked
<1>2. PICK w \in Wires : \E k \in DOMAIN Lhs[w] :
        /\ Leaving(run, w, k)
        /\ Len(Assigned(run)[w][k]) + (IF IsReserve(HeldAt(w, k)) THEN resv'[w] ELSE 0)
             > LhsCap[w][k]
  BY <1>1 DEF Overflows, Ends
<1>3. PICK k \in DOMAIN Lhs[w] :
        /\ Leaving(run, w, k)
        /\ Len(Assigned(run)[w][k]) + (IF IsReserve(HeldAt(w, k)) THEN resv'[w] ELSE 0)
             > LhsCap[w][k]
  BY <1>2
<1>4. Port(w, k) \in DOMAIN held[Writer(w, k)] /\ Writer(w, k) \in run
  BY <1>3, Zenon DEF Leaving
<1>5. ASSUME PDepth[Writer(w, k)] # 0, ~IsReserve(HeldAt(w, k))
      PROVE  FALSE
  <2>1. PDepth[Writer(w, k)] > 0
    BY <1>5, WiringAssumption, ClockAssumption
  <2>2. LhsCap[w][k] # 0 /\ LhsCap[w][k] \in Nat
    BY <1>4, EndPort DEF HeldIsQueued
  <2>3. Len(Assigned(run)[w][k]) <= LhsCap[w][k]
    BY <1>1, <1>4, <2>1, <2>2, RoomToAssign
  <2>4. Len(Assigned(run)[w][k]) \in Nat
    BY Assigning, QueueLength, Zenon
  <2>5. Len(Assigned(run)[w][k]) + 0 > LhsCap[w][k]
    BY <1>3, <1>5, Zenon
  <2> QED BY <2>2, <2>3, <2>4, <2>5
<1> QED BY <1>4, <1>5, Zenon DEF ReservesOrIgnoresStalls

\* "attemped to push to full RHS queue" of Module::PreClock is never an error
\* of a pipelined module and of the capacities it was built with: only a module
\* with pdepth 0, which runs while it is stalled, or room that is reserved can
\* bring an endpoint there.
THEOREM OnlyReservationsOverflow ==
  ASSUME UsesWhatIsShown
  PROVE  Spec => OnlyThoseOverflow
<1>1. Init => IInv
  BY InitIInv
<1>2. IInv /\ [Next]_vars => IInv'
  BY NextIInv
<1>3. IInv /\ [Next]_vars => [fault' /\ ~fault => ReservesOrIgnoresStalls]_vars
  <2> SUFFICES ASSUME IInv, Next, fault', ~fault PROVE ReservesOrIgnoresStalls
    BY Zenon
  <2>1. PICK d \in Domains : Tick(d)
    BY Zenon DEF Next
  <2>2. PICK ch, run, res, out : Parts(d, ch, run, res, out)
    BY <2>1, TickParts, Zenon
  <2> QED BY <2>2, OverflowStep, Zenon DEF IInv
<1> QED BY <1>1, <1>2, <1>3, PTL DEF Spec, OnlyThoseOverflow

-----------------------------------------------------------------------------
(* The board *)

LEMMA UsedOf ==
  ASSUME NEW s, NEW outs, NEW used
  PROVE  Result(s, outs, used).used = used
BY DEF Result

LEMMA UnitNames ==
  ASSUME NEW u \in NSUnits
  PROVE  u[1] \in {"dyn", "synq", "acc", "tsmgr", "amr", "as", "ps", "ac", "fdm",
                   "tx", "sdd", "feeder", "tsm"}
BY DEF NSUnits, UnitsNamed

\* No module of the board pops a message it was not shown.
LEMMA BoardUsesWhatIsShown ==
  ASSUME NEW u \in NSUnits, NEW s, NEW in, NEW size, NEW ch
  PROVE  NSOperation(u, s, in, size, ch).used \subseteq DOMAIN in
<1> DEFINE p == u[2]
           used == NSOperation(u, s, in, size, ch).used
<1>1. CASE u[1] = "dyn"
  <2>1. NSOperation(u, s, in, size, ch) = CoreDynUnit(p, s, in)
    BY <1>1 DEF NSOperation
  <2>2. CoreDynUnit(p, s, in).used = {<<"coreTS", p>>} \intersect DOMAIN in
    BY Zenon DEF CoreDynUnit, Result
  <2> QED BY <2>1, <2>2
<1>2. CASE u[1] = "synq"
  <2>1. NSOperation(u, s, in, size, ch) = FastSynQueue(p, s, in, size)
    BY <1>2 DEF NSOperation
  <2>2. \E taken : FastSynQueue(p, s, in, size).used = taken \intersect DOMAIN in
    BY Zenon DEF FastSynQueue, Result
  <2> QED BY <2>1, <2>2
<1>3. CASE u[1] = "acc"
  <2>1. NSOperation(u, s, in, size, ch) = CoreAccUnit(p, s, in)
    BY <1>3 DEF NSOperation
  <2>2. CoreAccUnit(p, s, in).used = {<<"synacc", p>>} \intersect DOMAIN in
    BY Zenon DEF CoreAccUnit, Result
  <2> QED BY <2>1, <2>2
<1>4. CASE u[1] = "tsmgr"
  <2>1. NSOperation(u, s, in, size, ch) = FastCoreTSMgr(p, s, in)
    BY <1>4 DEF NSOperation
  <2>2. FastCoreTSMgr(p, s, in).used = {<<"dynend", p>>, <<"accidle", p>>} \intersect DOMAIN in
    BY Zenon DEF FastCoreTSMgr, Result
  <2> QED BY <2>1, <2>2
<1>5. CASE u[1] = "amr"
  <2>1. NSOperation(u, s, in, size, ch) = AxonMetaRecv(p, s, in)
    BY <1>5 DEF NSOperation
  <2>2. AxonMetaRecv(p, s, in).used
          = IF <<"bypass", p>> \in DOMAIN in THEN {<<"bypass", p>>}
            ELSE {<<"axon", p>>} \intersect DOMAIN in
    BY Zenon DEF AxonMetaRecv, Result
  <2> QED BY <2>1, <2>2
<1>6. CASE u[1] = "as"
  <2>1. NSOperation(u, s, in, size, ch) = AxonStreamer(p, s, in)
    BY <1>6 DEF NSOperation
  <2>2. AxonStreamer(p, s, in).used
          = IF <<"stream", p>> \in DOMAIN in /\ s.free # <<>> THEN {<<"stream", p>>} ELSE {}
    BY Zenon DEF AxonStreamer, Result
  <2> QED BY <2>1, <2>2
<1>7. CASE u[1] = "ps"
  <2>1. NSOperation(u, s, in, size, ch) = PseudoStorage(p, s, in, size, ch[p])
    BY <1>7 DEF NSOperation
  <2> DEFINE tries == s.parity /\ <<"dramaddr", p>> \in DOMAIN in
                      /\ HasRoom(s, size[<<"dramdata", p>>])
             opened == IF tries THEN Opened(s, in[<<"dramaddr", p>>]) ELSE s
             asked == IF tries /\ opened.error = s.error THEN Sent(opened, in[<<"dramaddr", p>>])
                      ELSE opened
  <2>2. PseudoStorage(p, s, in, size, ch[p]).used
          = IF asked.entry # s.entry THEN {<<"dramaddr", p>>} ELSE {}
    BY Zenon DEF PseudoStorage, Result
  <2>3. asked.entry # s.entry => <<"dramaddr", p>> \in DOMAIN in
    BY Zenon
  <2> HIDE DEF asked
  <2> QED BY <2>1, <2>2, <2>3
<1>8. CASE u[1] = "ac"
  <2>1. NSOperation(u, s, in, size, ch) = AxonClassifier(p, s, in, size)
    BY <1>8 DEF NSOperation
  <2>2. AxonClassifier(p, s, in, size).used = {<<"dramdata", p>>} \intersect DOMAIN in
    BY Zenon DEF AxonClassifier, Result
  <2> QED BY <2>1, <2>2
<1>9. CASE u[1] = "fdm"
  <2>1. NSOperation(u, s, in, size, ch) = FastDelayMgr(p, s, in, size)
    BY <1>9 DEF NSOperation
  <2>2. \/ FastDelayMgr(p, s, in, size).used = {<<"delay", p>>} \intersect DOMAIN in
        \/ FastDelayMgr(p, s, in, size).used = {}
    BY Zenon DEF FastDelayMgr, Result
  <2> QED BY <2>1, <2>2
<1>10. CASE u[1] = "tx"
  <2>1. NSOperation(u, s, in, size, ch) = AxonTransmitter(s, in)
    BY <1>10 DEF NSOperation
  <2>2. AxonTransmitter(s, in).used = {<<"coreaxon", 0>>} \intersect DOMAIN in
    BY Zenon DEF AxonTransmitter, Result
  <2> QED BY <2>1, <2>2
<1>11. CASE u[1] = "sdd"
  <2>1. NSOperation(u, s, in, size, ch) = SynDataDistrib(s, in)
    BY <1>11 DEF NSOperation
  <2>2. SynDataDistrib(s, in).used = DOMAIN in
    BY Zenon DEF SynDataDistrib, Result
  <2> QED BY <2>1, <2>2
<1>12. CASE u[1] = "feeder"
  <2>1. NSOperation(u, s, in, size, ch) = InputFeeder(s, in, ch)
    BY <1>12 DEF NSOperation
  <2>2. InputFeeder(s, in, ch).used = {}
    BY Zenon DEF InputFeeder, Result
  <2> QED BY <2>1, <2>2
<1>13. CASE u[1] = "tsm"
  <2>1. NSOperation(u, s, in, size, ch) = TSManager(s, in)
    BY <1>13 DEF NSOperation
  <2>2. TSManager(s, in).used = {}
    BY Zenon DEF TSManager, Result
  <2> QED BY <2>1, <2>2
<1> QED
  BY UnitNames, <1>1, <1>2, <1>3, <1>4, <1>5, <1>6, <1>7, <1>8, <1>9, <1>10, <1>11, <1>12, <1>13

\* A board of NeuroSim in fast mode, with any numbers of cores and propagators,
\* any clocks and any capacities, keeps its endpoints within them.
THEOREM BoardNeverOverruns ==
  ASSUME Units = NSUnits,
         \A u \in Units : \A s, in, size, ch :
           Operation(u, s, in, size, ch) = NSOperation(u, s, in, size, ch)
  PROVE  Spec => [](ReadersHaveRoom /\ WritersHaveRoom)
<1>1. UsesWhatIsShown
  <2> SUFFICES ASSUME NEW u \in Units, NEW s, NEW in, NEW size, NEW ch
               PROVE  Operation(u, s, in, size, ch).used \subseteq DOMAIN in
    BY Zenon DEF UsesWhatIsShown
  <2>1. NSOperation(u, s, in, size, ch).used \subseteq DOMAIN in
    BY BoardUsesWhatIsShown
  <2>2. Operation(u, s, in, size, ch) = NSOperation(u, s, in, size, ch)
    OBVIOUS
  <2> QED BY <2>1, <2>2, Zenon
<1>2. Spec => []ReadersHaveRoom /\ []WritersHaveRoom
  BY <1>1, ReadersNeverOverrun, WritersNeverOverrun
<1> QED BY <1>2, PTL

-----------------------------------------------------------------------------
(* The detailed core *)

LEMMA CoreUnitNames ==
  ASSUME NEW u \in NCUnits
  PROVE  u[1] \in {"nbc", "nb", "amq", "amt", "state", "delta", "acc", "sdq", "tsmgr", "tsm",
                   "source", "tx"}
BY DEF NCUnits, Queues, Port0

\* No module of the detailed core pops a message it was not shown.
LEMMA CoreUsesWhatIsShown ==
  ASSUME NEW u \in NCUnits, NEW s, NEW in, NEW size, NEW ch
  PROVE  NCOperation(u, s, in, size, ch).used \subseteq DOMAIN in
<1>1. CASE u[1] = "nbc"
  <2>1. NCOperation(u, s, in, size, ch) = NBController(s, in)
    BY <1>1 DEF NCOperation
  <2>2. NBController(s, in).used = DOMAIN in
    BY Zenon DEF NBController, Result
  <2> QED BY <2>1, <2>2
<1>2. CASE u[1] = "nb"
  <2>1. NCOperation(u, s, in, size, ch) = NeuronBlock(s, in)
    BY <1>2 DEF NCOperation
  <2>2. NeuronBlock(s, in).used = DOMAIN in
    BY Zenon DEF NeuronBlock, Result
  <2> QED BY <2>1, <2>2
<1>3. CASE u[1] = "amq"
  <2>1. NCOperation(u, s, in, size, ch) = AxonMetaQueue(s, in, size)
    BY <1>3 DEF NCOperation
  <2>2. AxonMetaQueue(s, in, size).used = DOMAIN in
    BY Zenon DEF AxonMetaQueue, Result
  <2> QED BY <2>1, <2>2
<1>4. CASE u[1] = "amt"
  <2>1. NCOperation(u, s, in, size, ch) = AxonMetaTable(in)
    BY <1>4 DEF NCOperation
  <2>2. AxonMetaTable(in).used = DOMAIN in
    BY Zenon DEF AxonMetaTable, Result
  <2> QED BY <2>1, <2>2
<1>5. CASE u[1] = "state"
  <2>1. NCOperation(u, s, in, size, ch) = StateSRAM(s, in)
    BY <1>5 DEF NCOperation
  <2>2. StateSRAM(s, in).used = DOMAIN in
    BY Zenon DEF StateSRAM, Result
  <2> QED BY <2>1, <2>2
<1>6. CASE u[1] = "delta"
  <2>1. NCOperation(u, s, in, size, ch) = DeltaStorage(s, in)
    BY <1>6 DEF NCOperation
  <2>2. DeltaStorage(s, in).used = DOMAIN in
    BY Zenon DEF DeltaStorage, Result
  <2> QED BY <2>1, <2>2
<1>7. CASE u[1] = "acc"
  <2>1. NCOperation(u, s, in, size, ch) = Accumulator(s, in)
    BY <1>7 DEF NCOperation
  <2>2. Accumulator(s, in).used = DOMAIN in
    BY Zenon DEF Accumulator, Result
  <2> QED BY <2>1, <2>2
<1>8. CASE u[1] = "sdq"
  <2>1. NCOperation(u, s, in, size, ch) = SynDataQueue(u[2], s, in, size)
    BY <1>8 DEF NCOperation
  <2> DEFINE names == {<<"syn", u[2]>>, <<"synts", u[2]>>}
  <2>2. \/ SynDataQueue(u[2], s, in, size).used
             = (names \intersect DOMAIN in) \union ({Port0("coreTS")} \intersect DOMAIN in)
        \/ SynDataQueue(u[2], s, in, size).used
             = {} \union ({Port0("coreTS")} \intersect DOMAIN in)
    BY Zenon DEF SynDataQueue, ShownOf, Result
  <2> QED BY <2>1, <2>2
<1>9. CASE u[1] = "tsmgr"
  <2>1. NCOperation(u, s, in, size, ch) = CoreTSMgr(s, in)
    BY <1>9 DEF NCOperation
  <2>2. CoreTSMgr(s, in).used = DOMAIN in
    BY Zenon DEF CoreTSMgr, Result
  <2> QED BY <2>1, <2>2
<1>10. CASE u[1] = "tsm"
  <2>1. NCOperation(u, s, in, size, ch) = Manager(s, in)
    BY <1>10 DEF NCOperation
  <2>2. Manager(s, in).used = DOMAIN in
    BY Zenon DEF Manager, Result
  <2> QED BY <2>1, <2>2
<1>11. CASE u[1] = "source"
  <2>1. NCOperation(u, s, in, size, ch) = Source(s, in, ch)
    BY <1>11 DEF NCOperation
  <2>2. Source(s, in, ch).used = DOMAIN in
    BY Zenon DEF Source, Result
  <2> QED BY <2>1, <2>2
<1>12. CASE u[1] = "tx"
  <2>1. NCOperation(u, s, in, size, ch) = Sink(in)
    BY <1>12 DEF NCOperation
  <2>2. Sink(in).used = DOMAIN in
    BY Zenon DEF Sink, Result
  <2> QED BY <2>1, <2>2
<1> QED
  BY CoreUnitNames, <1>1, <1>2, <1>3, <1>4, <1>5, <1>6, <1>7, <1>8, <1>9, <1>10, <1>11, <1>12

\* So does a core of the detailed mode, with any number of propagators and any
\* depth of the neuron block.
THEOREM CoreNeverOverruns ==
  ASSUME Units = NCUnits,
         \A u \in Units : \A s, in, size, ch :
           Operation(u, s, in, size, ch) = NCOperation(u, s, in, size, ch)
  PROVE  Spec => [](ReadersHaveRoom /\ WritersHaveRoom)
<1>1. UsesWhatIsShown
  <2> SUFFICES ASSUME NEW u \in Units, NEW s, NEW in, NEW size, NEW ch
               PROVE  Operation(u, s, in, size, ch).used \subseteq DOMAIN in
    BY Zenon DEF UsesWhatIsShown
  <2>1. NCOperation(u, s, in, size, ch).used \subseteq DOMAIN in
    BY CoreUsesWhatIsShown
  <2>2. Operation(u, s, in, size, ch) = NCOperation(u, s, in, size, ch)
    OBVIOUS
  <2> QED BY <2>1, <2>2, Zenon
<1>2. Spec => []ReadersHaveRoom /\ []WritersHaveRoom
  BY <1>1, ReadersNeverOverrun, WritersNeverOverrun
<1> QED BY <1>2, PTL
=============================================================================
