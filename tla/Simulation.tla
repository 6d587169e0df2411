----------------------------- MODULE Simulation -----------------------------
(***************************************************************************)
(* The loop of Simulator::Simulate over a system of modules and latency-0  *)
(* pathways.  Every step is one clock of one clock domain: PreClock of its *)
(* modules, PreClock of its pathways, PostClock of its modules, PostClock  *)
(* of its pathways and of the gates between them.                          *)
(*                                                                         *)
(* A wire is a pathway with a PLAIN prototype: Lhs gives the modules that  *)
(* write it, each with the name of its port, Rhs the modules that read it, *)
(* for which the wire itself is the name of the port.  A level is a TOGGLE *)
(* pathway together with the AND gates in front of it; the leaves are the  *)
(* modules that write it.  The modules of a system, their wiring and their *)
(* Operations are constants, given by NeuroSim.                            *)
(***************************************************************************)
EXTENDS Integers, Sequences, FiniteSets

CONSTANTS
  Domains, Period,           \* 1..n in the order of their names, clock periods
  Units, ClockOf, PDepth,    \* modules, their clock domain and pipeline depth
  Wires, Lhs, Rhs,           \* [Wires -> Seq(<<unit, port>>)], [Wires -> SUBSET Units]
  LhsCap, RhsCap,            \* [Wires -> Seq(Nat)], [Wires -> Nat]: capacities
  Levels, Leaves, Readers,   \* [Levels -> SUBSET Units]
  InitStates,                \* the initial states of the modules
  Operation(_, _, _, _, _),  \* Module::Operation, overridden by every module
  Outside(_, _),             \* what is outside the modelled code
  DestOf(_, _),              \* DEST_RHS_ID: the readers a message goes to
  ReserveStep,               \* the room Endpoint::Reserve takes, 4
  IsFinished(_)              \* Testbench::IsFinished, of the modules' members

ASSUME ClockAssumption ==
  /\ Domains = 1..Len(Period)
  /\ \A d \in Domains : Period[d] \in Nat \ {0}
  /\ ClockOf \in [Units -> Domains] /\ PDepth \in [Units -> Nat]
  /\ ReserveStep \in Nat

VARIABLES
  due,      \* [Domains -> Nat]: nexttime, relative to the last clock
  state,    \* [Units -> ...]: the members of the modules
  pipe,     \* outputs in the pipeline, all stages but the last
  held,     \* the last stage: outputs that leave at the next PreClock
  lq,       \* [Wires -> Seq(Seq)]: message queues of the LHS endpoints
  rq,       \* [Wires -> [Units -> Seq]]: message queues of the RHS endpoints
  resv,     \* [Wires -> Nat]: resv_count of the endpoint of a pdepth-0 writer
  on,       \* [Wires -> Seq]: the message in the connection
  sel,      \* [Wires -> index in Lhs]: cur_lhsid
  leaf,     \* [Levels -> [Units -> Seq]]: what a leaf wrote last
  level,    \* [Levels -> Seq]: what was delivered to the readers last
  fault     \* a SYSTEM_ERROR of the endpoints was reached

net == <<lq, rq, resv, on, sel, leaf, level>>
vars == <<due, state, pipe, held, net, fault>>

None == <<>>
Writer(w, k) == Lhs[w][k][1]
Port(w, k) == Lhs[w][k][2]

\* Every wire has a writer, every port is that of one endpoint, and a name is
\* that of a wire or of a level.
ASSUME WiringAssumption ==
  /\ Wires \intersect Levels = {}
  /\ \A w \in Wires :
       /\ Len(Lhs[w]) \in Nat \ {0} /\ DOMAIN Lhs[w] = 1..Len(Lhs[w])
       /\ LhsCap[w] \in [DOMAIN Lhs[w] -> Nat] /\ RhsCap[w] \in Nat
       /\ \A k \in DOMAIN Lhs[w] : Writer(w, k) \in Units
  /\ \A v, w \in Wires : \A j \in DOMAIN Lhs[v], k \in DOMAIN Lhs[w] :
       Writer(v, j) = Writer(w, k) /\ Port(v, j) = Port(w, k) => v = w /\ j = k

\* Pathway::GetClockSet: a pathway runs in the domains of its writers.
WireClock == [w \in Wires |-> {ClockOf[Writer(w, k)] : k \in DOMAIN Lhs[w]}]
LevelClock == [l \in Levels |-> {ClockOf[u] : u \in Leaves[l]}]
UnitsOf == [d \in Domains |-> {u \in Units : ClockOf[u] = d}]
Ends == UNION {{<<w, k>> : k \in DOMAIN Lhs[w]} : w \in Wires}
OutEnds == [u \in Units |-> {e \in Ends : Writer(e[1], e[2]) = u}]
InWires == [u \in Units |-> {w \in Wires : u \in Rhs[w]}]
InLevels == [u \in Units |-> {l \in Levels : u \in Readers[l]}]

-----------------------------------------------------------------------------
Init ==
  /\ due = [d \in Domains |-> 0]
  /\ state \in InitStates
  /\ pipe = [u \in Units |-> [i \in 1..(IF PDepth[u] > 0 THEN PDepth[u] - 1 ELSE 0) |-> None]]
  /\ held = [u \in Units |-> None]
  /\ lq = [w \in Wires |-> [k \in DOMAIN Lhs[w] |-> <<>>]]
  /\ rq = [w \in Wires |-> [u \in Rhs[w] |-> <<>>]]
  /\ resv = [w \in Wires |-> 0]
  /\ on = [w \in Wires |-> <<>>]
  /\ sel = [w \in Wires |-> 1]
  /\ leaf = [l \in Levels |-> [u \in Leaves[l] |-> <<>>]]
  /\ level = [l \in Levels |-> <<>>]
  /\ fault = FALSE

\* The domain with the smallest nexttime is next, the first of them by name.
IsNext(d) ==
  \A e \in Domains : due[d] <= due[e] /\ (e < d => due[d] < due[e])

Advanced(d) == [e \in Domains |-> IF e = d THEN Period[d] ELSE due[e] - due[d]]

\* Module::PreClock: the LHS endpoint cannot take a message.
Blocked(w, k) ==
  IF LhsCap[w][k] = 0 THEN sel[w] # k \/ lq[w][k] # <<>>
  ELSE Len(lq[w][k]) + resv[w] >= LhsCap[w][k]

Stalled(u) == \E e \in OutEnds[u] : Blocked(e[1], e[2])

IsReserve(m) == "type" \in DOMAIN m /\ m.type = "RESERVE"

\* A message of the endpoint is at the end of the pipeline of its module.
Leaving(go, w, k) == Writer(w, k) \in go /\ Port(w, k) \in DOMAIN held[Writer(w, k)]
HeldAt(w, k) == held[Writer(w, k)][Port(w, k)]

Assigned(go) ==
  [w \in Wires |-> [k \in DOMAIN lq[w] |->
     IF Leaving(go, w, k) /\ ~IsReserve(HeldAt(w, k)) THEN Append(lq[w][k], HeldAt(w, k))
                                                     ELSE lq[w][k]]]

\* Endpoint::Reserve takes room for some messages and every Assign gives one
\* back, as long as there is any.
Reserved(go) ==
  [w \in Wires |->
     IF \E k \in DOMAIN lq[w] : Leaving(go, w, k) /\ IsReserve(HeldAt(w, k)) THEN resv[w] + ReserveStep
     ELSE IF resv[w] > 0 /\ \E k \in DOMAIN lq[w] : Leaving(go, w, k) THEN resv[w] - 1
     ELSE resv[w]]

\* The SYSTEM_ERRORs of Reserve and of an Assign to a full endpoint.
Overflows(go, queues) ==
  \E e \in Ends : LET w == e[1] k == e[2] IN
    /\ Leaving(go, w, k)
    /\ Len(queues[w][k]) + (IF IsReserve(HeldAt(w, k)) THEN resv'[w] ELSE 0) > LhsCap[w][k]

\* Pathway::PreClock: the message in the connection reaches the readers.
Delivered(d) ==
  [w \in Wires |->
     IF d \notin WireClock[w] \/ on[w] = <<>> THEN rq[w]
     ELSE [u \in Rhs[w] |-> IF u \in DestOf(w, on[w][1]) THEN Append(rq[w][u], on[w][1])
                                                         ELSE rq[w][u]]]

\* The gates answer once each of their inputs has been written.
Gated(l) ==
  IF \E u \in Leaves[l] : leaf[l][u] = <<>> THEN <<>>
  ELSE << \A u \in Leaves[l] : leaf[l][u][1] >>

Arriving(d) == [l \in Levels |-> IF d \in LevelClock[l] THEN Gated(l) ELSE level[l]]

\* What Operation is shown: PLAIN messages unless the module is stalled, and
\* the last message of every level.
Shown(u, queues, stalled) ==
  LET plain == {w \in InWires[u] : queues[w][u] # <<>> /\ ~stalled}
      toggle == {l \in InLevels[u] : level'[l] # <<>>}
  IN [p \in plain \union toggle |-> IF p \in plain THEN Head(queues[p][u]) ELSE level'[p][1]]

\* GetOutQueSize of the ports of a module.
SizesOf(u, queues) ==
  [p \in {Port(e[1], e[2]) : e \in OutEnds[u]} |->
     LET e == CHOOSE e \in OutEnds[u] : Port(e[1], e[2]) = p IN Len(queues[e[1]][e[2]])]

\* Pathway::PostClock: the message of the selected LHS enters the connection
\* if every reader it goes to has room.
Issued(d, out) ==
  [w \in Wires |->
     LET queue == out[w][sel[w]]
     IN IF d \in WireClock[w] /\ queue # <<>>
           /\ \A u \in DestOf(w, Head(queue)) : Len(rq'[w][u]) < RhsCap[w]
        THEN <<Head(queue)>> ELSE <<>>]

\* RRFaninWire::NextTargetLHSEndpointID: the next LHS with capacity 0 or with
\* a message, or the same one again.
NextSel(w) ==
  LET n == Len(Lhs[w])
      at(i) == ((sel[w] + i - 1) % n) + 1
      taken == {i \in 1..n : LhsCap[w][at(i)] = 0 \/ lq'[w][at(i)] # <<>>}
  IN IF taken = {} THEN sel[w] ELSE at(CHOOSE i \in taken : \A j \in taken : i <= j)

-----------------------------------------------------------------------------
(* The clock of one domain, by its parts *)

\* A module with pdepth 0 runs even while it is stalled.
Running(d) == {u \in UnitsOf[d] : PDepth[u] = 0 \/ ~Stalled(u)}

Results(run, inq, queues, ch) ==
  [u \in run |-> Operation(u, state[u], Shown(u, inq, Stalled(u)), SizesOf(u, queues), ch)]

\* What leaves the pipeline next.
Outputs(run, res) == [u \in run |-> IF pipe[u] = <<>> THEN res[u].outs ELSE Head(pipe[u])]

\* The used messages are popped.
Popped(run, res, inq) ==
  [w \in Wires |-> [u \in Rhs[w] |->
     IF u \in run /\ w \in res[u].used THEN Tail(inq[w][u]) ELSE inq[w][u]]]

\* An endpoint without capacity gets its message one PreClock earlier.
Ahead(run, out, w, k) ==
  LhsCap[w][k] = 0 /\ Writer(w, k) \in run /\ Port(w, k) \in DOMAIN out[Writer(w, k)]

Filled(run, out, queues) ==
  [w \in Wires |-> [k \in DOMAIN lq[w] |->
     IF Ahead(run, out, w, k) THEN Append(queues[w][k], out[Writer(w, k)][Port(w, k)])
                              ELSE queues[w][k]]]

QueuedPorts(u) == {Port(e[1], e[2]) : e \in {f \in OutEnds[u] : LhsCap[f[1]][f[2]] # 0}}

\* What was issued is popped.
Remaining(queues, sent) ==
  [w \in Wires |-> IF sent[w] = <<>> THEN queues[w] ELSE [queues[w] EXCEPT ![sel[w]] = Tail(@)]]

\* The modules and the endpoints after the clock.
Clocked(d, run, inq, pushed, res, out, filled) ==
  /\ state' = [u \in Units |-> IF u \in run THEN res[u].st ELSE state[u]]
  /\ pipe' = [u \in Units |->
                IF u \in run /\ pipe[u] # <<>> THEN Append(Tail(pipe[u]), res[u].outs)
                ELSE pipe[u]]
  /\ held' = [u \in Units |->
                IF u \in run THEN [p \in DOMAIN out[u] \intersect QueuedPorts(u) |-> out[u][p]]
                ELSE held[u]]
  /\ leaf' = [l \in Levels |-> [u \in Leaves[l] |->
                IF u \in run /\ l \in DOMAIN out[u] THEN <<out[u][l]>> ELSE leaf[l][u]]]
  /\ resv' = Reserved(run)
  /\ fault' = (fault \/ Overflows(run, pushed))
  /\ rq' = Popped(run, res, inq)
  /\ \E sent \in {Issued(d, filled)} :
       /\ lq' = Remaining(filled, sent)
       /\ on' = [w \in Wires |-> IF d \in WireClock[w] THEN sent[w] ELSE on[w]]
  /\ sel' = [w \in Wires |-> IF d \in WireClock[w] THEN NextSel(w) ELSE sel[w]]

Tick(d) ==
  /\ ~IsFinished(state)
  /\ IsNext(d)
  /\ due' = Advanced(d)
  /\ level' = Arriving(d)
  /\ \E run \in {Running(d)}, inq \in {Delivered(d)}, ch \in Outside(d, state) :
     \E pushed \in {Assigned(run)} :
     \E res \in {Results(run, inq, pushed, ch)} :
     \E out \in {Outputs(run, res)} :
     \E filled \in {Filled(run, out, pushed)} :
        Clocked(d, run, inq, pushed, res, out, filled)

Next == \E d \in Domains : Tick(d)

Spec == Init /\ [][Next]_vars
FairSpec == Spec /\ WF_vars(Next)
=============================================================================
