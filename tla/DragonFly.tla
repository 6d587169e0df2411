------------------------------ MODULE DragonFly ------------------------------
(***************************************************************************)
(* Dragonflies of BookSim (networks/dragonfly.cpp): groups of 2 gP routers,*)
(* each connected to all others of its group and by gP channels to other   *)
(* groups, so that any two groups have one channel each way.               *)
(*                                                                         *)
(* Ports below gP lead to the nodes, the next gA - 1 to the routers of the *)
(* group, the last gP to other groups.                                     *)
(***************************************************************************)
EXTENDS BookSimRoute

CONSTANT gP

gA == 2 * gP
gG == gA * gP + 1
Routers == 0..(gA * gG - 1)
Nodes == 0..(gP * gA * gG - 1)
Ports == 0..(4 * gP - 2)
Home(node) == <<node \div gP, node % gP>>

Group(r) == r \div gA
GroupOf(node) == Group(node \div gP)

OutChannel(r, p) == IF p < gP THEN <<"eject", gP * r + p>> ELSE <<"chan", (3 * gP - 1) * r + p - gP>>

\* The inputs from the group are in the order of its routers; those from other
\* groups in the order of the groups.
InChannel(r, p) ==
  LET k == 3 * gP - 1
      id == r % gA
      cnt == p - gP
      grp == id * gP + p - gP - (gA - 1)
  IN CASE p < gP -> <<"inject", gP * r + p>>
       [] p \in gP..(gP + gA - 2) ->
            <<"chan", IF cnt < id THEN Group(r) * k * gA + cnt * k + id - 1
                                  ELSE Group(r) * k * gA + (cnt + 1) * k + id>>
       [] p > gP + gA - 2 ->
            <<"chan", IF Group(r) > grp
                      THEN grp * k * gA + (k - gP) * ((Group(r) - 1) \div gP) + (k - gP) + Group(r) - 1
                      ELSE (grp + 1) * k * gA + (k - gP) * (Group(r) \div gP) + (k - gP) + Group(r)>>

dragonfly_port(r, node) ==
  LET dest_grp == GroupOf(node)
      grp_output == IF Group(r) > dest_grp THEN dest_grp ELSE dest_grp - 1
      grp_RID == IF dest_grp = Group(r) THEN node \div gP ELSE grp_output \div gP + Group(r) * gA
  IN IF node \div gP = r THEN node % gP
     ELSE IF grp_RID = r THEN gP + gA - 1 + (grp_output % gP)
     ELSE gP + (grp_RID % gA) - IF r < grp_RID THEN 1 ELSE 0

Optical(port) == port >= gP + gA - 1

AnyVC(f) == {Via(f, Inject, VCs(v, v)) : v \in 0..AllVCs.hi}

\* dest_grp_ID is not computed: no packet is found to be in the group of its
\* destination at its source.
min_dragonflynew(r, in, f) ==
  LET port == dragonfly_port(r, f.dest)
      ph == IF Optical(port) THEN 1 ELSE IF in < gP THEN 0 ELSE f.ph
  IN IF in = Inject THEN AnyVC(f) ELSE {Via([f EXCEPT !.ph = ph], port, VCs(ph, ph))}

\* At the source, by the credits of the two outputs: to the destination (phase
\* 1, or 2 in the same group), or to a random node first (phase 0).
Adaptive(r, f) ==
  IF GroupOf(f.dest) = Group(r) THEN {[f EXCEPT !.ph = 2]}
  ELSE {[f EXCEPT !.ph = 1, !.intm = n] : n \in Nodes} \union
       {[f EXCEPT !.ph = 0, !.intm = n] :
          n \in {m \in Nodes : GroupOf(m) # Group(r) /\ dragonfly_port(r, m) # dragonfly_port(r, f.dest)}}

ugal_dragonflynew(r, in, f) ==
  LET minimal(g) == IF g.ph = 0 /\ r = g.intm \div gP THEN [g EXCEPT !.ph = 1] ELSE g
      port(g) == dragonfly_port(r, IF g.ph = 0 THEN g.intm ELSE g.dest)
      dateline(g) == IF g.ph = 1 /\ Optical(port(g)) THEN [g EXCEPT !.ph = 2] ELSE g
      result(g) == Via(dateline(g), port(g), VCs(dateline(g).ph, dateline(g).ph))
  IN IF in = Inject THEN AnyVC(f)
     ELSE {result(minimal(g)) : g \in IF in < gP THEN Adaptive(r, f) ELSE {f}}
=============================================================================
