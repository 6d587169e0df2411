-------------------------- MODULE IndirectNetworks --------------------------
(***************************************************************************)
(* The networks of BookSim whose nodes are at the edge: butterflies        *)
(* (networks/fly.cpp), fat trees (fattree.cpp), quad trees (qtree.cpp) and *)
(* 4-ary trees (tree4.cpp), with their routing functions (routefunc.cpp).  *)
(* Routers have the numbers the code gives them; in a tree, the ports      *)
(* below gK lead down, the others up.                                      *)
(***************************************************************************)
EXTENDS BookSimRoute

CONSTANTS gK, gN

Nodes == 0..(gK^gN - 1)
Width0 == gK^(gN - 1)        \* routers in a stage or level

-----------------------------------------------------------------------------
(* Butterfly: router stage * Width0 + addr *)

FlyRouters == 0..(gN * Width0 - 1)
FlyPorts(r) == 0..(gK - 1)
FlyHome(node) == <<node \div gK, node % gK>>

FlyOutChannel(r, p) ==
  LET stage == r \div Width0
      addr == r % Width0
  IN IF stage = gN - 1 THEN <<"eject", addr * gK + p>>
                       ELSE <<"chan", stage * gK^gN + addr * gK + p>>

\* Between two stages the digit of the stage and the last digit are swapped.
FlyInChannel(r, p) ==
  LET stage == r \div Width0
      addr == r % Width0
      shift == gK^(gN - stage - 1)
      zero == (addr \div shift) % gK
  IN IF stage = 0 THEN <<"inject", addr * gK + p>>
     ELSE <<"chan", (stage - 1) * gK^gN + (addr - zero * shift + p * shift) * gK + zero>>

dest_tag_fly(r, in, f) ==
  LET stage == r \div Width0
  IN {IF in = Inject THEN Via(f, Inject, AllVCs)
      ELSE Via(f, (f.dest \div gK^(gN - 1 - stage)) % gK, AllVCs)}

-----------------------------------------------------------------------------
(* Fat tree: router level * Width0 + pos, level 0 at the top *)

FatTreeRouters == 0..(gN * Width0 - 1)
FatTreePorts(r) == 0..((IF r < Width0 THEN gK ELSE 2 * gK) - 1)
FatTreeHome(node) == <<(gN - 1) * Width0 + node \div gK, node % gK>>

PerLevel == 2 * gK^gN        \* channels down and up between two levels

FatTreeOutChannel(r, p) ==
  LET level == r \div Width0
      pos == r % Width0
  IN IF p >= gK THEN <<"chan", level * PerLevel - gK^gN + pos * gK + (p - gK)>>
     ELSE IF level = gN - 1 THEN <<"eject", pos * gK + p>>
     ELSE <<"chan", level * PerLevel + pos * gK + p>>

\* The inputs are interleaved within the neighbourhood of routers that have
\* the parents or the children in common.
FatTreeInChannel(r, p) ==
  LET level == r \div Width0
      pos == r % Width0
      upper == IF p < gK THEN level ELSE level - 1
      hood == gK^(gN - 1 - upper)
      branch == gK^(gN - 2 - upper)
      base == IF p < gK THEN (level + 1) * PerLevel - gK^gN ELSE (level - 1) * PerLevel
      inside == pos % hood
  IN IF p < gK /\ level = gN - 1 THEN <<"inject", pos * gK + p>>
     ELSE <<"chan", base + (pos \div hood) * hood * gK + (p % gK) * branch * gK
                    + (inside % branch) * gK + inside \div branch>>

\* Down at the nearest common ancestor, by a random port up below it.
fattree_nca(r, in, f) ==
  LET level == r \div Width0
      coverage == gK^(gN - level)
      first == ((r % Width0) \div gK^(gN - level - 1)) * coverage
      below == f.dest >= first /\ f.dest < first + coverage
      down == (f.dest - first) \div gK^(gN - level - 1)
  IN IF in = Inject THEN {Via(f, Inject, AllVCs)}
     ELSE IF below THEN {Via(f, down, AllVCs)}
     ELSE {Via(f, gK + up, AllVCs) : up \in IF in < gK THEN 0..(gK - 1) ELSE {}}

\* The less occupied of two random ports up: any of them.
fattree_anca(r, in, f) == fattree_nca(r, in, f)

-----------------------------------------------------------------------------
(* Quad tree, gK = 4 and gN = 3: router height * 256 + pos *)

QTreeRouters == UNION {{256 * h + pos : pos \in 0..(gK^h - 1)} : h \in 0..(gN - 1)}
QTreePorts(r) == 0..(IF r = 0 THEN gK - 1 ELSE gK)
QTreeHome(node) == <<256 * (gN - 1) + node \div gK, node % gK>>

\* Channels in one direction above the links of height h.
ChannelsAbove(h) == IF h = 0 THEN 0 ELSE IF h = 1 THEN gK ELSE gK + gK^2

InputIndex(h, pos, port) == ChannelsAbove(h) + gK * pos + port
OutputIndex(h, pos, port) == ChannelsAbove(gN - 1) + InputIndex(h, pos, port)

QTreeOutChannel(r, p) ==
  LET h == r \div 256
      pos == r % 256
  IN IF p = gK THEN <<"chan", InputIndex(h - 1, pos \div gK, pos % gK)>>
     ELSE IF h = gN - 1 THEN <<"eject", gK * pos + p>>
     ELSE <<"chan", OutputIndex(h, pos, p)>>

QTreeInChannel(r, p) ==
  LET h == r \div 256
      pos == r % 256
  IN IF p = gK THEN <<"chan", OutputIndex(h - 1, pos \div gK, pos % gK)>>
     ELSE IF h = gN - 1 THEN <<"inject", gK * pos + p>>
     ELSE <<"chan", InputIndex(h, pos, p)>>

qtree_nca(r, in, f) ==
  LET part == f.dest \div gK^(gN - 1 - r \div 256)
  IN {IF in = Inject THEN Via(f, Inject, AllVCs)
      ELSE Via(f, IF r % 256 = part \div gK THEN part % gK ELSE gK, AllVCs)}

-----------------------------------------------------------------------------
(* 4-ary tree with four roots, gK = 4 and gN = 3: router height * 16 + pos; *)
(* a pair of routers in the middle has the same four leaves below it.       *)

Tree4Routers == (0..3) \union (16..23) \union (32..47)
Tree4Ports(r) == 0..(IF r < 32 THEN 7 ELSE 5)
Tree4Home(node) == <<32 + node \div 4, node % 4>>

Leaf(mid, port) == 2 * (4 * mid + port)         \* channel down; + 1 is up
Middle(root, port) == 64 + 2 * (8 * root + port)

\* Up and down channels are numbered in turn; the parity tells them apart.
Tree4Link(r, p, out) ==
  LET pos == r % 16
      down == IF out THEN 0 ELSE 1
  IN CASE r < 16 -> Middle(pos, p) + down
       [] r \in 16..31 /\ p < 4 -> Leaf(pos, p) + down
       [] r \in 16..31 /\ p >= 4 -> Middle(p - 4, pos) + 1 - down
       [] r >= 32 -> Leaf(2 * (pos \div 4) + (p - 4), pos % 4) + 1 - down

Tree4OutChannel(r, p) ==
  IF r >= 32 /\ p < 4 THEN <<"eject", 4 * (r - 32) + p>> ELSE <<"chan", Tree4Link(r, p, TRUE)>>
Tree4InChannel(r, p) ==
  IF r >= 32 /\ p < 4 THEN <<"inject", 4 * (r - 32) + p>> ELSE <<"chan", Tree4Link(r, p, FALSE)>>

\* The ports down to the destination, or up if it is not below.
Tree4Down(r, dest) ==
  CASE r < 16 -> {2 * (dest \div 16), 2 * (dest \div 16) + 1}
    [] r \in 16..31 -> IF dest \div 16 = (r % 16) \div 2 THEN {(dest \div 4) % 4} ELSE {}
    [] r >= 32 -> IF dest \div 4 = r % 16 THEN {dest % 4} ELSE {}

Tree4Up(r) == IF r < 32 THEN gK..(2 * gK - 1) ELSE gK..(gK + 1)

tree4_nca(r, in, f) ==
  IF in = Inject THEN {Via(f, Inject, AllVCs)}
  ELSE LET down == Tree4Down(r, f.dest)
       IN {Via(f, p, AllVCs) : p \in IF down = {} THEN Tree4Up(r) ELSE down}

\* All ports up are offered with the same priority.
tree4_anca(r, in, f) ==
  LET down == Tree4Down(r, f.dest)
      up == SetToSortSeq(Tree4Up(r), LAMBDA a, b : a < b)
  IN IF in = Inject THEN {Via(f, Inject, AllVCs)}
     ELSE IF down # {} THEN {Via(f, p, AllVCs) : p \in down}
     ELSE {Offer(f, [i \in DOMAIN up |-> Output(up[i], AllVCs, 0)])}
=============================================================================
