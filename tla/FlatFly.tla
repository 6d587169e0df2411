------------------------------- MODULE FlatFly -------------------------------
(***************************************************************************)
(* Flattened butterflies of BookSim (networks/flatfly_onchip.cpp): in every*)
(* dimension a router has a channel to each of the gK - 1 others, behind   *)
(* the ports to its gC nodes.                                              *)
(***************************************************************************)
EXTENDS BookSimRoute

CONSTANTS
  gK, gN, gC,
  xcount, xrouter      \* routers in a row, nodes of a router in a row; _ycount
                       \* and _yrouter are the same

Routers == 0..(gK^gN - 1)
Nodes == 0..(gC * gK^gN - 1)
Ports == 0..(gC + gN * (gK - 1) - 1)
Dims == 0..(gN - 1)
Coord(r, d) == (r \div gK^d) % gK

\* Nodes are numbered by rows of the whole chip; the transformation numbers
\* them by routers.
flatfly_transformation(node) ==
  LET row == node \div (xcount * xrouter)
      column == node % (xcount * xrouter)
  IN ((row \div xrouter) * xcount + column \div xrouter) * gC
     + xrouter * (row % xrouter) + (column % xrouter)

RouterOf(node) == flatfly_transformation(node) \div gC
Home(node) == <<RouterOf(node), flatfly_transformation(node) % gC>>
NodeAt(r, p) ==
  xcount * xrouter * (xrouter * (r \div xcount) + p \div xrouter)
  + xrouter * (r % xcount) + (p % xrouter)

\* The port toward a coordinate of a dimension.
Toward(r, d, c) == gC + (gK - 1) * d + IF c > Coord(r, d) THEN c - 1 ELSE c

Move(r, d, c) == r + (c - Coord(r, d)) * gK^d

ChannelNumber(r, p) == (gK - 1) * gN * r + p - gC

OutChannel(r, p) == IF p < gC THEN <<"eject", NodeAt(r, p)>> ELSE <<"chan", ChannelNumber(r, p)>>

\* Input channels are added while the loop visits the routers at their other
\* end, so that they are in the order of these routers.
InChannel(r, p) ==
  LET links == {<<Move(r, d, c), d>> : d \in Dims, c \in 0..(gK - 1)} \ {<<r, d>> : d \in Dims}
      from == SetToSortSeq(links, LAMBDA a, b : a[1] < b[1])[p - gC + 1]
  IN IF p < gC THEN <<"inject", NodeAt(r, p)>>
     ELSE <<"chan", ChannelNumber(from[1], Toward(from[1], from[2], Coord(r, from[2])))>>

-----------------------------------------------------------------------------
(* node below is a node as the transformation numbers it. *)

Differ(r, node) == {d \in Dims : Coord(r, d) # Coord(node \div gC, d)}

outport(r, node, d) == Toward(r, d, Coord(node \div gC, d))

flatfly_outport(node, r) ==
  IF Differ(r, node) = {} THEN node % gC ELSE outport(r, node, Min(Differ(r, node)))
flatfly_outport_yx(node, r) ==
  IF Differ(r, node) = {} THEN node % gC ELSE outport(r, node, Max(Differ(r, node)))

Here(r, node) == node \div gC = r

min_flatfly(r, in, f) ==
  {Via(f, IF in = Inject THEN Inject ELSE flatfly_outport(flatfly_transformation(f.dest), r),
       AllVCs)}

\* The order of the dimensions is drawn at the source and known by the VC.
OrderXY(in, f) == IF in < gC THEN BOOLEAN ELSE {f.vc < Width(AllVCs) \div 2}

Outport(xy, node, r) == IF xy THEN flatfly_outport(node, r) ELSE flatfly_outport_yx(node, r)

xyyx_flatfly(r, in, f) ==
  LET dest == flatfly_transformation(f.dest)
  IN IF in = Inject THEN {Via(f, Inject, AllVCs)}
     ELSE IF Here(r, dest) THEN {Via(f, dest % gC, AllVCs)}
     ELSE {Via(f, Outport(xy, dest, r), Half(AllVCs, ~xy)) : xy \in OrderXY(in, f)}

\* The order is chosen by the credits of the two outputs, whatever they are.
adaptive_xyyx_flatfly(r, in, f) == xyyx_flatfly(r, in, f)

valiant_flatfly(r, in, f) ==
  LET dest == flatfly_transformation(f.dest)
      drawn == IF in < gC THEN {[f EXCEPT !.ph = 0, !.intm = n] : n \in Nodes} ELSE {f}
      result(g) == Via(g, flatfly_outport(IF g.ph = 0 THEN flatfly_transformation(g.intm)
                                                      ELSE dest, r),
                       IF Here(r, dest) THEN AllVCs ELSE Half(AllVCs, g.ph = 1))
  IN IF in = Inject THEN {Via(f, Inject, AllVCs)}
     ELSE {result(IF RouterOf(g.intm) = r \/ Here(r, dest) THEN [g EXCEPT !.ph = 1] ELSE g) :
           g \in drawn}

-----------------------------------------------------------------------------
(* UGAL: by the credits at its source a packet goes to its destination      *)
(* (phase 2), or to an intermediate node first (phase 1).                   *)

\* Intermediate nodes differ from the source where the destination does.
find_ran_intm(r, dest) ==
  {n \in Nodes : \A d \in Dims \ Differ(r, dest) : Coord(n \div gC, d) = Coord(r, d)}

\* The headers after the decision.  The way by the intermediate node is not the
\* shorter one, and so is not taken if it begins at the same port; one at the
\* source itself ends its phase there and then.
Decided(r, f, xy) ==
  LET dest == flatfly_transformation(f.dest)
  IN {[f EXCEPT !.ph = 2]} \union
     {[f EXCEPT !.ph = IF Here(r, n) THEN 2 ELSE 1, !.intm = n] :
        n \in {m \in find_ran_intm(r, dest) : Outport(xy, m, r) # Outport(xy, dest, r)}}

\* The header before the decision, or if none is left to be made.
Advanced(r, in, f) ==
  LET g == IF in < gC THEN [f EXCEPT !.ph = 0] ELSE f
  IN IF g.ph = 1 /\ Here(r, g.intm) THEN [g EXCEPT !.ph = 2] ELSE g

\* Results <<header, output port>> of a packet for which the VCs are yet to be
\* chosen.  xy: the order of the dimensions.
Ugal(r, in, f, xy) ==
  LET dest == flatfly_transformation(f.dest)
      g == Advanced(r, in, f)
  IN IF Here(r, dest) /\ g.ph # 1 THEN {<<g, dest % gC>>}
     ELSE {<<h, Outport(xy, IF h.ph = 1 THEN h.intm ELSE dest, r)>> :
             h \in IF g.ph = 0 THEN Decided(r, g, xy) ELSE {g}}

PhaseHalf(range, res) == IF res[2] < gC THEN range ELSE Half(range, res[1].ph = 2)

ugal_flatfly_onchip(r, in, f) ==
  IF in = Inject THEN {Via(f, Inject, AllVCs)}
  ELSE {Via(res[1], res[2], PhaseHalf(AllVCs, res)) : res \in Ugal(r, in, f, TRUE)}

ugal_xyyx_flatfly_onchip(r, in, f) ==
  IF in = Inject THEN {Via(f, Inject, AllVCs)}
  ELSE UNION {
         {Via(res[1], res[2], IF res[2] < gC THEN AllVCs ELSE PhaseHalf(Half(AllVCs, ~xy), res)) :
            res \in Ugal(r, in, f, xy)} : xy \in OrderXY(in, f)}

\* Partially non-interfering: packets have VCs by the coordinate, or port, that
\* they need at the next router.  gK = gC.
ugal_pni_flatfly_onchip(r, in, f) ==
  LET dest == flatfly_transformation(f.dest)
      next_coord(port) == LET next_dim == (port - gC) \div (gK - 1) + 1
                          IN IF next_dim = gN THEN dest % gC ELSE Coord(dest \div gC, next_dim)
  IN IF in = Inject THEN {Via(f, Inject, Share(AllVCs, Coord(dest \div gC, 0), gK))}
     ELSE {Via(res[1], res[2],
               IF res[2] < gC THEN AllVCs
               ELSE Share(PhaseHalf(AllVCs, res), next_coord(res[2]), gK)) :
             res \in Ugal(r, in, f, TRUE)}
=============================================================================
