-------------------------------- MODULE CMesh --------------------------------
(***************************************************************************)
(* Concentrated meshes of BookSim (networks/cmesh.cpp): two dimensions,    *)
(* four nodes at every router, and express channels along the four edges,  *)
(* each of which replaces the port that would leave the mesh there.        *)
(*                                                                         *)
(* Ports 0..3 lead to the nodes, gC + 0..3 to the right, to the left, up   *)
(* and down (POSITIVE_X, NEGATIVE_X, POSITIVE_Y, NEGATIVE_Y).              *)
(***************************************************************************)
EXTENDS BookSimRoute

CONSTANT gK

gC == 4
Routers == 0..(gK^2 - 1)
Nodes == 0..(gC * gK^2 - 1)
Ports == 0..(gC + 3)

X(r) == r % gK
Y(r) == r \div gK
At(x, y) == gK * y + x

\* Router and port of a node; nodes are numbered by rows of the whole mesh.
NodeToRouter(a) == At((a % (2 * gK)) \div 2, a \div (4 * gK))
NodeToPort(a) == 2 * ((a \div (2 * gK)) % 2) + (a % 2)
Home(a) == <<NodeToRouter(a), NodeToPort(a)>>

\* The node a port of a router is connected to.
NodeAt(r, p) == 2 * gK * (2 * Y(r) + p \div 2) + 2 * X(r) + (p % 2)

\* Mutant of Across: the second half of the edge is not connected back.
AcrossUp(c) == c + gK \div 2

\* The other end of an express channel is half an edge away.
Across(c) == IF c < gK \div 2 THEN c + gK \div 2 ELSE c - gK \div 2

OutChannel(r, p) ==
  IF p < gC THEN <<"eject", NodeAt(r, p)>> ELSE <<"chan", r + (p - gC) * gK^2>>

\* A channel comes in by the port that leads back to where it comes from, but
\* an express channel by the port it left from.
InChannel(r, p) ==
  LET from(dir, x, y) == <<"chan", At(x, y) + dir * gK^2>>
  IN CASE p < gC -> <<"inject", NodeAt(r, p)>>
       [] p = gC + 0 -> IF X(r) = gK - 1 THEN from(0, X(r), Across(Y(r)))
                                         ELSE from(1, X(r) + 1, Y(r))
       [] p = gC + 1 -> IF X(r) = 0 THEN from(1, 0, Across(Y(r)))
                                    ELSE from(0, X(r) - 1, Y(r))
       [] p = gC + 2 -> IF Y(r) = gK - 1 THEN from(2, Across(X(r)), Y(r))
                                         ELSE from(3, X(r), Y(r) + 1)
       [] p = gC + 3 -> IF Y(r) = 0 THEN from(3, Across(X(r)), 0)
                                    ELSE from(2, X(r), Y(r) - 1)

-----------------------------------------------------------------------------
\* One hop along a dimension; off is the port that leaves the mesh at the edge
\* the router is on, which is express for distances above reach.
Along(here, there, plus, minus, edge, offMinus, offPlus, reach) ==
  LET far == (IF here < there THEN there - here ELSE here - there) > reach
  IN gC + CASE far /\ edge = 0 -> offMinus
            [] far /\ edge = gK - 1 -> offPlus
            [] OTHER -> IF here < there THEN plus ELSE minus

AlongX(cur, dest, reach) == Along(X(cur), X(dest), 0, 1, Y(cur), 3, 2, reach)
AlongY(cur, dest, reach) == Along(Y(cur), Y(dest), 2, 3, X(cur), 1, 0, reach)

cmesh_xy(cur, dest, reach) ==
  IF X(cur) # X(dest) THEN AlongX(cur, dest, reach) ELSE AlongY(cur, dest, reach)
cmesh_yx(cur, dest, reach) ==
  IF Y(cur) # Y(dest) THEN AlongY(cur, dest, reach) ELSE AlongX(cur, dest, reach)

Never == gK                  \* no distance is above it

xy_yx(r, in, f, reach) ==
  LET dest == NodeToRouter(f.dest)
      x_then_y == IF in < gC THEN BOOLEAN ELSE {f.vc < Width(AllVCs) \div 2}
  IN IF in = Inject THEN {Via(f, Inject, AllVCs)}
     ELSE IF r = dest THEN {Via(f, NodeToPort(f.dest), AllVCs)}
     ELSE {Via(f, IF x THEN cmesh_xy(r, dest, reach) ELSE cmesh_yx(r, dest, reach),
               Half(AllVCs, ~x)) : x \in x_then_y}

xy_yx_cmesh(r, in, f) == xy_yx(r, in, f, 1)
xy_yx_no_express_cmesh(r, in, f) == xy_yx(r, in, f, Never)

dor(r, in, f, reach) ==
  LET dest == NodeToRouter(f.dest)
  IN {Via(f, IF in = Inject THEN Inject
             ELSE IF r = dest THEN NodeToPort(f.dest)
             ELSE cmesh_xy(r, dest, reach), AllVCs)}

dor_cmesh(r, in, f) == dor(r, in, f, gK \div 2 - 1)
dor_no_express_cmesh(r, in, f) == dor(r, in, f, Never)
=============================================================================
