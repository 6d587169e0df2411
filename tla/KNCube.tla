------------------------------- MODULE KNCube -------------------------------
(***************************************************************************)
(* k-ary n-cubes of BookSim, the torus the boards are connected by among   *)
(* them: the numbering of the channels (networks/kncube.cpp) and the       *)
(* routing functions of meshes and tori (routefunc.cpp).  Both topologies  *)
(* have the channels that wrap around; those for a mesh do not use them.   *)
(*                                                                         *)
(* A router has one node.  Its ports 2d and 2d + 1 lead to the right and   *)
(* to the left neighbour in dimension d, port 2n to its node.              *)
(***************************************************************************)
EXTENDS BookSimRoute

CONSTANTS gK, gN

gNodes == gK ^ gN
Routers == 0..(gNodes - 1)
Dims == 0..(gN - 1)
Local == 2 * gN          \* the port of the node

\* The coordinate of a router in a dimension.
Coord(x, d) == (x \div gK^d) % gK

LeftNode(x, d) == IF Coord(x, d) = 0 THEN x + (gK - 1) * gK^d ELSE x - gK^d
RightNode(x, d) == IF Coord(x, d) = gK - 1 THEN x - (gK - 1) * gK^d ELSE x + gK^d

LeftChannel(x, d) == 2 * gN * x + 2 * d + 1
RightChannel(x, d) == 2 * gN * x + 2 * d

\* The channels BuildNet adds to the ports of a router.
OutChannel(x, p) ==
  IF p = Local THEN <<"eject", x>>
  ELSE <<"chan", IF p % 2 = 0 THEN RightChannel(x, p \div 2) ELSE LeftChannel(x, p \div 2)>>

InChannel(x, p) ==
  IF p = Local THEN <<"inject", x>>
  ELSE LET d == p \div 2
       IN <<"chan", IF p % 2 = 0 THEN LeftChannel(RightNode(x, d), d)
                                 ELSE RightChannel(LeftNode(x, d), d)>>

-----------------------------------------------------------------------------
(* Meshes *)

Differ(cur, dest) == {d \in Dims : Coord(cur, d) # Coord(dest, d)}

Toward(cur, dest, d) == IF Coord(cur, d) < Coord(dest, d) THEN 2 * d ELSE 2 * d + 1

dor_next_mesh(cur, dest, descending) ==
  IF cur = dest THEN Local
  ELSE Toward(cur, dest, IF descending THEN Max(Differ(cur, dest)) ELSE Min(Differ(cur, dest)))

dim_order_mesh(r, in, f) ==
  {Via(f, IF in = Inject THEN Inject ELSE dor_next_mesh(r, f.dest, FALSE), AllVCs)}

\* Non-interfering: every destination has its own VCs.
dim_order_ni_mesh(r, in, f) ==
  LET port == IF in = Inject THEN Inject ELSE dor_next_mesh(r, f.dest, FALSE)
  IN {Via(f, port, IF in # Inject /\ r = f.dest THEN AllVCs ELSE Share(AllVCs, f.dest, gNodes))}

\* Partially non-interfering: every coordinate in the dimension of the next
\* hop has its own VCs.
dim_order_pni_mesh(r, in, f) ==
  LET port == dor_next_mesh(r, f.dest, FALSE)
  IN {IF in = Inject THEN Via(f, Inject, Share(AllVCs, Coord(f.dest, 0), gK))
      ELSE IF r = f.dest THEN Via(f, port, AllVCs)
      ELSE Via(f, port, Share(AllVCs, Coord(f.dest, port \div 2), gK))}

\* A random order of the dimensions, which the VC records.
xy_yx_mesh(r, in, f) ==
  IF in = Inject THEN {Via(f, Inject, AllVCs)}
  ELSE IF r = f.dest THEN {Via(f, Local, AllVCs)}
  ELSE LET x_then_y == IF in < Local THEN {f.vc < Width(AllVCs) \div 2} ELSE BOOLEAN
       IN {Via(f, dor_next_mesh(r, f.dest, ~x), Half(AllVCs, ~x)) : x \in x_then_y}

\* The order is chosen by the occupancy of the two outputs, at random if they
\* are alike: any order is possible.
adaptive_xy_yx_mesh(r, in, f) == xy_yx_mesh(r, in, f)

\* Random intermediate routers in the quadrant of source and destination.
rand_min_intr_mesh(src, dest) ==
  {x \in Routers : \A d \in Dims :
     \/ Coord(src, d) <= Coord(x, d) /\ Coord(x, d) <= Coord(dest, d)
     \/ Coord(dest, d) <= Coord(x, d) /\ Coord(x, d) <= Coord(src, d)}

\* The headers after the first lines of the two-phase functions: the
\* intermediate router is drawn at the source and left behind once reached.
Phased(r, in, f, intermediates) ==
  LET drawn == IF in = Local THEN {[f EXCEPT !.ph = 0, !.intm = x] : x \in intermediates}
                             ELSE {f}
  IN {IF g.ph = 0 /\ r = g.intm THEN [g EXCEPT !.ph = 1] ELSE g : g \in drawn}

Aim(f) == IF f.ph = 0 THEN f.intm ELSE f.dest

two_phase_mesh(r, in, f, intermediates) ==
  IF in = Inject THEN {Via(f, Inject, AllVCs)}
  ELSE {Via(g, dor_next_mesh(r, Aim(g), FALSE),
            IF r = f.dest THEN AllVCs ELSE Half(AllVCs, g.ph = 1)) :
        g \in Phased(r, in, f, intermediates)}

\* A packet comes in by the port of the node at its source only.
romm_mesh(r, in, f) == two_phase_mesh(r, in, f, rand_min_intr_mesh(r, f.dest))

valiant_mesh(r, in, f) == two_phase_mesh(r, in, f, Routers)

romm_ni_mesh(r, in, f) ==
  LET range == Share(AllVCs, f.dest, gNodes)
  IN IF in = Inject THEN {Via(f, Inject, range)}
     ELSE {Via(g, dor_next_mesh(r, Aim(g), FALSE), IF r = f.dest THEN AllVCs ELSE range) :
           g \in Phased(r, in, f, rand_min_intr_mesh(r, f.dest))}

InOrder(S) == SetToSortSeq(S, LAMBDA a, b : a < b)

\* VC 0 is the escape channel, which a packet does not leave.
min_adapt_mesh(r, in, f) ==
  LET in_vc == IF in = Local THEN AllVCs.hi ELSE f.vc
      escape == Output(dor_next_mesh(r, f.dest, FALSE), VCs(0, 0), 0)
      adaptive == [i \in 1..Cardinality(Differ(r, f.dest)) |->
                     Output(Toward(r, f.dest, InOrder(Differ(r, f.dest))[i]),
                            Above(AllVCs, 1), 1)]
  IN {IF in = Inject THEN Via(f, Inject, AllVCs)
      ELSE IF r = f.dest THEN Via(f, Local, AllVCs)
      ELSE Offer(f, <<escape>> \o IF in_vc # 0 THEN adaptive ELSE <<>>)}

\* Without faulty links.  Plane n is that of dimensions n and n + 1.
planar_adapt_mesh(r, in, f) ==
  LET m == Width(AllVCs) \div 3
      misrouted == in \div 2 = 0 /\ f.vc < 2 * m
      n == Min(Differ(r, f.dest) \ IF misrouted THEN {0} ELSE {})
      increase == Coord(r, n) < Coord(f.dest, n)
      second == (n + 1) % gN
      across == IF n + 1 \notin Differ(r, f.dest) THEN -1
                ELSE IF Coord(r, n + 1) < Coord(f.dest, n + 1) THEN 2 * second
                                                              ELSE 2 * second + 1
      base == IF increase THEN 0 ELSE m
  IN {IF in = Inject THEN Via(f, Inject, AllVCs)
      ELSE IF r = f.dest THEN Via(f, Local, AllVCs)
      ELSE Offer(f, <<Output(Toward(r, f.dest, n), Above(AllVCs, 2 * m), 0)>> \o
                    IF across \in {-1, in} THEN <<>>
                    ELSE <<Output(across, VCs(base, base + m - 1), 0)>>)}

chaos_mesh(r, in, f) ==
  LET order == InOrder(Differ(r, f.dest))
  IN {IF in = Inject THEN Via(f, Inject, VCs(0, 0))
      ELSE IF r = f.dest THEN Via(f, Local, VCs(0, 0))
      ELSE Offer(f, [i \in DOMAIN order |-> Output(Toward(r, f.dest, order[i]), VCs(0, 0), 0)])}

-----------------------------------------------------------------------------
(* Tori *)

\* Right (0), left (1), or either if the destination is opposite.
Directions(c, e) ==
  LET dist2 == gK - 2 * ((e - c + gK) % gK)
  IN IF dist2 > 0 THEN {0} ELSE IF dist2 = 0 THEN {0, 1} ELSE {1}

\* Mutant of Dateline: packets that wrap around to the left are not told apart.
DatelineRight(dir, c, e) == IF dir = 0 /\ c > e THEN 1 ELSE 0

\* The ring is cut between gK - 1 and 0: packets that cross the cut and those
\* that do not use different halves of the VCs.
Dateline(dir, c, e) == IF (dir = 0 /\ c > e) \/ (dir = 1 /\ e < c) THEN 1 ELSE 0

\* A second cut in the middle of the ring; packets that cross neither may use
\* both halves.
Balanced(dir, c, e) ==
  LET mid == (gK - 1) \div 2
  IN IF (dir = 0 /\ c > e) \/ (dir = 1 /\ c < e) THEN {1}
     ELSE IF (dir = 0 /\ c <= mid /\ e > mid) \/ (dir = 1 /\ c > mid /\ e <= mid) THEN {0}
     ELSE {0, 1}

\* Mutant of Opposite: the packet leaves by the port it came by.
OppositeBack(in) == in

Opposite(in) == IF in % 2 = 0 THEN in + 1 ELSE in - 1

\* The possible output ports and partitions of the ring.  A packet that goes
\* straight on, or has arrived, keeps the partition it had.
dor_next_torus(cur, dest, in, old, balance) ==
  LET d == Min(Differ(cur, dest))
      c == Coord(cur, d)
      e == Coord(dest, d)
      parts(dir) == IF balance THEN Balanced(dir, c, e) ELSE {Dateline(dir, c, e)}
  IN IF cur = dest THEN {<<Local, old>>}
     ELSE IF in \div 2 = d THEN {<<Opposite(in), old>>}
     ELSE UNION {{<<2 * d + dir, part>> : part \in parts(dir)} : dir \in Directions(c, e)}

ring_torus(r, in, f, balance) ==
  IF in = Inject THEN {Via(f, Inject, AllVCs)}
  ELSE {Via([f EXCEPT !.ph = o[2]], o[1],
            IF r = f.dest THEN AllVCs ELSE Half(AllVCs, o[2] # 0)) :
        o \in dor_next_torus(r, f.dest, in, f.ph, balance)}

dim_order_torus(r, in, f) == ring_torus(r, in, f, FALSE)

dim_order_bal_torus(r, in, f) == ring_torus(r, in, f, TRUE)

dim_order_ni_torus(r, in, f) ==
  IF in = Inject THEN {Via(f, Inject, AllVCs)}
  ELSE {Via(f, o[1], IF r = f.dest THEN AllVCs ELSE Share(AllVCs, f.dest, gNodes)) :
        o \in dor_next_torus(r, f.dest, in, 0, FALSE)}

\* The VCs of a ring partition and a phase.
RingAndPhase(range, part, phase) ==
  LET ring == Width(range) \div 2
      r == Half(range, part # 0)
  IN IF phase = 0 THEN Below(r, ring \div 2) ELSE Above(r, ring \div 2)

\* f->ph is 2 * phase + partition.  The partition is a local variable that
\* dor_next_torus does not set for packets that go straight on: it has the
\* value an earlier call left on the stack.
valiant_torus(r, in, f) ==
  LET aimed == {IF g[1] = 0 /\ r = g[2].intm THEN <<1, g[2], Local>> ELSE <<g[1], g[2], in>> :
                g \in IF in = Local THEN {<<0, [f EXCEPT !.intm = x]>> : x \in Routers}
                                    ELSE {<<f.ph \div 2, f>>}}
  IN IF in = Inject THEN {Via(f, Inject, AllVCs)}
     ELSE UNION {UNION {{
            Via([g[2] EXCEPT !.ph = 2 * g[1] + o[2]], o[1],
                IF r = f.dest THEN AllVCs ELSE RingAndPhase(AllVCs, o[2], g[1])) :
            o \in dor_next_torus(r, IF g[1] = 0 THEN g[2].intm ELSE f.dest, g[3], stack, FALSE)} :
            stack \in {0, 1}} : g \in aimed}

\* As valiant_torus with VCs for every destination; but it looks at f->ph
\* where valiant_torus looks at the phase.
valiant_ni_torus(r, in, f) ==
  LET own == Share(AllVCs, f.dest, gNodes)
      drawn == IF in = Local THEN {[f EXCEPT !.intm = x] : x \in Routers} ELSE {f}
      aimed == {IF g.ph = 0 /\ r = g.intm THEN <<[g EXCEPT !.ph = 1], Local>> ELSE <<g, in>> :
                g \in drawn}
      phase == IF in = Local THEN 0 ELSE f.ph \div 2
  IN IF in = Inject THEN {Via(f, Inject, own)}
     ELSE UNION {UNION {{
            Via([g[1] EXCEPT !.ph = 2 * phase + o[2]], o[1],
                IF r = f.dest THEN AllVCs ELSE RingAndPhase(own, o[2], phase)) :
            o \in dor_next_torus(r, Aim(g[1]), g[2], stack, FALSE)} :
            stack \in {0, 1}} : g \in aimed}

\* VCs 0 and 1 are the escape channels, and only VC 3 is adaptive.
min_adapt_torus(r, in, f) ==
  LET in_vc == IF in = Local THEN AllVCs.hi ELSE f.vc
      order == InOrder(Differ(r, f.dest))
      adaptive == [i \in DOMAIN order |->
                     LET d == order[i]
                         right == gK - 2 * ((Coord(f.dest, d) - Coord(r, d) + gK) % gK) > 0
                     IN Output(IF right THEN 2 * d ELSE 2 * d + 1, VCs(3, 3), 1)]
      arrived == IF r = f.dest THEN <<Output(Local, AllVCs, 0)>> ELSE <<>>
      free == in_vc > 1
  IN IF in = Inject THEN {Via(f, Inject, AllVCs)}
     ELSE {Offer([f EXCEPT !.ph = o[2]],
                 arrived \o (IF free THEN adaptive ELSE <<>>) \o
                 <<Output(o[1], IF o[2] = 0 THEN VCs(0, 0) ELSE VCs(1, 1), 0)>>) :
           o \in dor_next_torus(r, f.dest, IF free THEN Local ELSE in, f.ph, FALSE)}

chaos_torus(r, in, f) ==
  LET order == InOrder(Differ(r, f.dest))
      dirs(d) == LET dist2 == gK - 2 * ((Coord(f.dest, d) - Coord(r, d) + gK) % gK)
                 IN (IF dist2 >= 0 THEN <<2 * d>> ELSE <<>>) \o
                    (IF dist2 <= 0 THEN <<2 * d + 1>> ELSE <<>>)
      ports == FlattenSeq([i \in DOMAIN order |-> dirs(order[i])])
  IN {IF in = Inject THEN Via(f, Inject, VCs(0, 0))
      ELSE IF r = f.dest THEN Via(f, Local, VCs(0, 0))
      ELSE Offer(f, [i \in DOMAIN ports |-> Output(ports[i], VCs(0, 0), 0)])}
=============================================================================
