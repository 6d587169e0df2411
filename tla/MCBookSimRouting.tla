-------------------------- MODULE MCBookSimRouting --------------------------
(***************************************************************************)
(* Small networks of every topology of BookSim: <<topology, routing        *)
(* function, number of VCs>>, the values a configuration file of the       *)
(* simulator names them by.                                                *)
(***************************************************************************)
EXTENDS BookSimRouting, Traffic

Cube(x) == INSTANCE KNCube WITH
  gK <- CASE x[1] = "torus2" -> 2 [] x[1] = "torus4" -> 4 [] OTHER -> 3, gN <- 2,
  gNumVCs <- x[3]
Edge(x) == INSTANCE IndirectNetworks WITH
  gK <- IF x[1] \in {"qtree", "tree4"} THEN 4 ELSE 2, gN <- 3, gNumVCs <- x[3]
Concentrated(x) == INSTANCE CMesh WITH gK <- 4, gNumVCs <- x[3]
\* Nine routers with a node each, or four in one dimension with four each.
Flat(x) == INSTANCE FlatFly WITH
  gK <- IF x[1] = "flatfly" THEN 3 ELSE 4, gN <- IF x[1] = "flatfly" THEN 2 ELSE 1,
  gC <- IF x[1] = "flatfly" THEN 1 ELSE 4, xcount <- IF x[1] = "flatfly" THEN 3 ELSE 2,
  xrouter <- IF x[1] = "flatfly" THEN 1 ELSE 2, gNumVCs <- x[3]
Groups(x) == INSTANCE DragonFly WITH gP <- IF x[2] = "min" THEN 2 ELSE 1, gNumVCs <- x[3]

\* A graph in which the shortest way is not the one of fewest links, nor the
\* way back.
Links == [l \in {<<0, 1>>, <<1, 0>>, <<1, 2>>, <<2, 1>>, <<0, 2>>, <<2, 0>>,
                 <<2, 3>>, <<3, 2>>, <<3, 4>>, <<4, 3>>, <<4, 0>>, <<0, 4>>} |->
            CASE l = <<0, 2>> -> 5 [] l = <<4, 0>> -> 7 [] l = <<2, 3>> -> 3 [] OTHER -> 1]
Any(x) == INSTANCE AnyNet WITH
  Size <- 5, RouterOf <- [node \in 0..5 |-> <<0, 1, 2, 3, 4, 2>>[node + 1]],
  LinkWeight <- Links, gNumVCs <- x[3]

Tori == {"torus2", "torus3", "torus4"}
Direct == {"mesh"} \union Tori
Flats == {"flatfly", "flatfly4"}

MCRouters(x) ==
  CASE x[1] \in Direct -> Cube(x)!Routers
    [] x[1] \in {"fly", "fattree"} -> Edge(x)!FlyRouters
    [] x[1] = "qtree" -> Edge(x)!QTreeRouters
    [] x[1] = "tree4" -> Edge(x)!Tree4Routers
    [] x[1] = "cmesh" -> Concentrated(x)!Routers
    [] x[1] \in Flats -> Flat(x)!Routers
    [] x[1] = "dragonflynew" -> Groups(x)!Routers
    [] x[1] = "anynet" -> Any(x)!Routers

MCPorts(x, r) ==
  CASE x[1] \in Direct -> 0..4
    [] x[1] = "fly" -> Edge(x)!FlyPorts(r)
    [] x[1] = "fattree" -> Edge(x)!FatTreePorts(r)
    [] x[1] = "qtree" -> Edge(x)!QTreePorts(r)
    [] x[1] = "tree4" -> Edge(x)!Tree4Ports(r)
    [] x[1] = "cmesh" -> Concentrated(x)!Ports
    [] x[1] \in Flats -> Flat(x)!Ports
    [] x[1] = "dragonflynew" -> Groups(x)!Ports
    [] x[1] = "anynet" -> Any(x)!Ports(r)

\* In the larger networks, packets from one node of a router or of a corner.
MCSources(x) ==
  CASE x[1] \in Direct -> Cube(x)!Routers
    [] x[1] \in {"fly", "fattree"} -> Edge(x)!Nodes
    [] x[1] = "qtree" -> {node \in Edge(x)!Nodes : node % 16 \in {0, 5}}
    [] x[1] = "tree4" -> {node \in Edge(x)!Nodes : node % 16 \in {0, 5}}
    [] x[1] = "cmesh" -> {node \in Concentrated(x)!Nodes : Concentrated(x)!NodeToPort(node) = 1}
    [] x[1] \in Flats -> Flat(x)!Nodes
    [] x[1] = "dragonflynew" -> Groups(x)!Nodes
    [] x[1] = "anynet" -> Any(x)!Nodes

MCDests(x) ==
  CASE x[1] \in {"qtree", "tree4"} -> Edge(x)!Nodes
    [] x[1] = "cmesh" -> Concentrated(x)!Nodes
    [] OTHER -> MCSources(x)

MCVCs(x) == x[3]

MCHome(x, node) ==
  CASE x[1] \in Direct -> <<node, Cube(x)!Local>>
    [] x[1] = "fly" -> Edge(x)!FlyHome(node)
    [] x[1] = "fattree" -> Edge(x)!FatTreeHome(node)
    [] x[1] = "qtree" -> Edge(x)!QTreeHome(node)
    [] x[1] = "tree4" -> Edge(x)!Tree4Home(node)
    [] x[1] = "cmesh" -> Concentrated(x)!Home(node)
    [] x[1] \in Flats -> Flat(x)!Home(node)
    [] x[1] = "dragonflynew" -> Groups(x)!Home(node)
    [] x[1] = "anynet" -> Any(x)!HomeOf(node)

MCOutChannel(x, r, p) ==
  CASE x[1] \in Direct -> Cube(x)!OutChannel(r, p)
    [] x[1] = "fly" -> Edge(x)!FlyOutChannel(r, p)
    [] x[1] = "fattree" -> Edge(x)!FatTreeOutChannel(r, p)
    [] x[1] = "qtree" -> Edge(x)!QTreeOutChannel(r, p)
    [] x[1] = "tree4" -> Edge(x)!Tree4OutChannel(r, p)
    [] x[1] = "cmesh" -> Concentrated(x)!OutChannel(r, p)
    [] x[1] \in Flats -> Flat(x)!OutChannel(r, p)
    [] x[1] = "dragonflynew" -> Groups(x)!OutChannel(r, p)
    [] x[1] = "anynet" -> Any(x)!OutChannel(r, p)

MCInChannel(x, r, p) ==
  CASE x[1] \in Direct -> Cube(x)!InChannel(r, p)
    [] x[1] = "fly" -> Edge(x)!FlyInChannel(r, p)
    [] x[1] = "fattree" -> Edge(x)!FatTreeInChannel(r, p)
    [] x[1] = "qtree" -> Edge(x)!QTreeInChannel(r, p)
    [] x[1] = "tree4" -> Edge(x)!Tree4InChannel(r, p)
    [] x[1] = "cmesh" -> Concentrated(x)!InChannel(r, p)
    [] x[1] \in Flats -> Flat(x)!InChannel(r, p)
    [] x[1] = "dragonflynew" -> Groups(x)!InChannel(r, p)
    [] x[1] = "anynet" -> Any(x)!InChannel(r, p)

MeshRoute(x, r, in, f) ==
  CASE x[2] = "dim_order" -> Cube(x)!dim_order_mesh(r, in, f)
    [] x[2] = "dim_order_ni" -> Cube(x)!dim_order_ni_mesh(r, in, f)
    [] x[2] = "dim_order_pni" -> Cube(x)!dim_order_pni_mesh(r, in, f)
    [] x[2] = "xy_yx" -> Cube(x)!xy_yx_mesh(r, in, f)
    [] x[2] = "adaptive_xy_yx" -> Cube(x)!adaptive_xy_yx_mesh(r, in, f)
    [] x[2] = "romm" -> Cube(x)!romm_mesh(r, in, f)
    [] x[2] = "romm_ni" -> Cube(x)!romm_ni_mesh(r, in, f)
    [] x[2] = "min_adapt" -> Cube(x)!min_adapt_mesh(r, in, f)
    [] x[2] = "planar_adapt" -> Cube(x)!planar_adapt_mesh(r, in, f)
    [] x[2] = "valiant" -> Cube(x)!valiant_mesh(r, in, f)
    [] x[2] = "chaos" -> Cube(x)!chaos_mesh(r, in, f)

TorusRoute(x, r, in, f) ==
  CASE x[2] = "dim_order" -> Cube(x)!dim_order_torus(r, in, f)
    [] x[2] = "dim_order_bal" -> Cube(x)!dim_order_bal_torus(r, in, f)
    [] x[2] = "dim_order_ni" -> Cube(x)!dim_order_ni_torus(r, in, f)
    [] x[2] = "min_adapt" -> Cube(x)!min_adapt_torus(r, in, f)
    [] x[2] = "valiant" -> Cube(x)!valiant_torus(r, in, f)
    [] x[2] = "chaos" -> Cube(x)!chaos_torus(r, in, f)

EdgeRoute(x, r, in, f) ==
  CASE x[1] = "fly" -> Edge(x)!dest_tag_fly(r, in, f)
    [] x[1] = "fattree" /\ x[2] = "nca" -> Edge(x)!fattree_nca(r, in, f)
    [] x[1] = "fattree" /\ x[2] = "anca" -> Edge(x)!fattree_anca(r, in, f)
    [] x[1] = "qtree" -> Edge(x)!qtree_nca(r, in, f)
    [] x[1] = "tree4" /\ x[2] = "nca" -> Edge(x)!tree4_nca(r, in, f)
    [] x[1] = "tree4" /\ x[2] = "anca" -> Edge(x)!tree4_anca(r, in, f)

CMeshRoute(x, r, in, f) ==
  CASE x[2] = "dor" -> Concentrated(x)!dor_cmesh(r, in, f)
    [] x[2] = "dor_no_express" -> Concentrated(x)!dor_no_express_cmesh(r, in, f)
    [] x[2] = "xy_yx" -> Concentrated(x)!xy_yx_cmesh(r, in, f)
    [] x[2] = "xy_yx_no_express" -> Concentrated(x)!xy_yx_no_express_cmesh(r, in, f)

FlatRoute(x, r, in, f) ==
  CASE x[2] = "ran_min" -> Flat(x)!min_flatfly(r, in, f)
    [] x[2] = "xyyx" -> Flat(x)!xyyx_flatfly(r, in, f)
    [] x[2] = "adaptive_xyyx" -> Flat(x)!adaptive_xyyx_flatfly(r, in, f)
    [] x[2] = "valiant" -> Flat(x)!valiant_flatfly(r, in, f)
    [] x[2] = "ugal" -> Flat(x)!ugal_flatfly_onchip(r, in, f)
    [] x[2] = "ugal_xyyx" -> Flat(x)!ugal_xyyx_flatfly_onchip(r, in, f)
    [] x[2] = "ugal_pni" -> Flat(x)!ugal_pni_flatfly_onchip(r, in, f)

MCRoute(x, r, in, f) ==
  CASE x[1] = "mesh" -> MeshRoute(x, r, in, f)
    [] x[1] \in Tori -> TorusRoute(x, r, in, f)
    [] x[1] \in {"fly", "fattree", "qtree", "tree4"} -> EdgeRoute(x, r, in, f)
    [] x[1] = "cmesh" -> CMeshRoute(x, r, in, f)
    [] x[1] \in Flats -> FlatRoute(x, r, in, f)
    [] x[1] = "dragonflynew" /\ x[2] = "min" -> Groups(x)!min_dragonflynew(r, in, f)
    [] x[1] = "dragonflynew" /\ x[2] = "ugal" -> Groups(x)!ugal_dragonflynew(r, in, f)
    [] x[1] = "anynet" -> Any(x)!min_anynet(r, in, f)

\* The functions with which a full network must not come to a stop.
MCWaiting == {
  <<"mesh", "dim_order", 1>>, <<"mesh", "dim_order_ni", 9>>, <<"mesh", "dim_order_pni", 3>>,
  <<"mesh", "xy_yx", 2>>, <<"mesh", "adaptive_xy_yx", 2>>, <<"mesh", "romm", 2>>,
  <<"mesh", "romm_ni", 9>>, <<"mesh", "min_adapt", 3>>, <<"mesh", "planar_adapt", 3>>,
  <<"torus2", "dim_order", 16>>, <<"torus3", "dim_order", 4>>,
  <<"torus4", "dim_order", 2>>, <<"torus4", "dim_order_bal", 2>>,
  <<"torus4", "dim_order_ni", 16>>, <<"torus4", "min_adapt", 4>>,
  <<"fly", "dest_tag", 1>>, <<"fattree", "nca", 1>>, <<"fattree", "anca", 1>>,
  <<"qtree", "nca", 1>>, <<"tree4", "nca", 1>>, <<"tree4", "anca", 1>>,
  <<"cmesh", "dor_no_express", 1>>, <<"cmesh", "xy_yx_no_express", 2>>,
  <<"cmesh", "dor", 1>>, <<"cmesh", "xy_yx", 2>>,
  <<"flatfly", "ran_min", 1>>, <<"flatfly", "xyyx", 2>>, <<"flatfly", "adaptive_xyyx", 2>>,
  <<"flatfly", "valiant", 2>>, <<"flatfly", "ugal", 2>>, <<"flatfly", "ugal_xyyx", 4>>,
  <<"flatfly4", "ugal_pni", 8>>,
  <<"dragonflynew", "min", 2>>}

\* All functions.  Chaos routers move packets out of the way of others, and
\* any network may have rings; for the rest see README.
MCNetworks == MCWaiting \union {
  <<"mesh", "valiant", 2>>, <<"mesh", "chaos", 1>>, <<"torus3", "valiant", 4>>,
  <<"torus4", "valiant", 4>>,
  <<"torus4", "chaos", 1>>, <<"dragonflynew", "ugal", 3>>, <<"anynet", "min", 1>>}

-----------------------------------------------------------------------------
(* The traffic patterns of BookSim on small networks. *)

Named(name) == [name |-> name, params |-> <<>>]
Permutes(f, nodes) == {f[s] : s \in 0..(nodes - 1)} = 0..(nodes - 1)

\* Every permutation pattern is one: no node is the destination of two.
ASSUME PermutationsPermute ==
  /\ \A name \in {"bitcomp", "transpose", "bitrev", "shuffle"}, b \in 0..6 :
       Accepts(Named(name), 2^b) =>
         Permutes([s \in 0..(2^b - 1) |->
           CHOOSE d \in Destinations(Named(name), 2^b, <<>>, s) : TRUE], 2^b)
  /\ \A name \in {"tornado", "neighbor"}, k \in 1..4, n \in 1..2, xr \in 1..2 :
       Permutes([s \in 0..((k * xr)^n - 1) |->
         CHOOSE d \in Destinations(Named(name), (k * xr)^n, [k |-> k, n |-> n, xr |-> xr], s) : TRUE],
         (k * xr)^n)

\* They are what they are called: of the order two, or that of the bits; and a
\* tornado goes as far around every ring as there is one shortest way.
ASSUME PatternsAreTheirNames ==
  /\ \A b \in 0..3 : \A s \in 0..(4^b - 1) :
       /\ BitComp(4^b, BitComp(4^b, s)) = s
       /\ Transpose(4^b, Transpose(4^b, s)) = s
       /\ BitRev(4^b, BitRev(4^b, s)) = s
       /\ LET shuffled[i \in 0..(2 * b)] == IF i = 0 THEN s ELSE Shuffle(4^b, shuffled[i - 1])
          IN shuffled[2 * b] = s
  /\ \A radix \in 1..7 : \A s \in 0..(radix - 1) :
       \A d \in {(Tornado(s, radix, 1) - s + radix) % radix} :
         d \in {e \in 0..radix : 2 * e < radix} /\ 2 * (d + 1) >= radix

\* Randomized draws every permutation, and each in one way only.
ASSUME RandomPermutationIsAny ==
  LET draws == {d \in [1..4 -> 0..3] : \A i \in 1..4 : d[i] <= 4 - i}
      permutations == {f \in [0..3 -> 0..3] : Permutes(f, 4)}
  IN /\ {Randomized(4, d) : d \in draws} = permutations
     /\ \A d, e \in draws : Randomized(4, d) = Randomized(4, e) => d = e

\* A hotspot is drawn as often as its rate says.
ASSUME HotSpotByRate ==
  \A rates \in [1..3 -> 0..2] : \A i \in 1..3 :
    Cardinality({pct \in 0..MaxVal(rates) : HotSpot(<<5, 6, 7>>, rates, pct) = 4 + i}) = rates[i]

\* Random destinations are nodes; those of the bad permutations are all in the
\* next group, or in the column with the number of the row.
ASSUME DestinationsAreNodes ==
  /\ \A name \in {"uniform", "diagonal", "asymmetric", "taper64"}, nodes \in {2, 5, 64} :
       Accepts(Named(name), nodes) =>
         \A s \in 0..(nodes - 1) : Destinations(Named(name), nodes, <<>>, s) \subseteq 0..(nodes - 1)
  /\ \A s \in 0..71, d \in 0..71 :
       d \in BadPermDFly(72, s, 2) <=> d \div 8 = (s \div 8 + 1) % 9
  /\ \A s \in 0..15, d \in 0..15 : d \in BadPermYarc(s, 4) <=> d % 4 = s \div 4

\* With an odd number of nodes nothing goes to the last one; with more of them
\* than the digits can name, tornado packets leave the others out.
ASSUME SomeAreLeftOut ==
  /\ \A s \in 0..4 : 4 \notin Destinations(Named("asymmetric"), 5, <<>>, s)
  /\ \A s \in 0..63 : Tornado(s, 4, 2) < 16

\* On average a source sends at the load, when what was derived is a
\* probability; which it is not in all that is accepted.
ASSUME OnOffAtLoad ==
  LET processes == {p \in [alpha : -1..One, beta : -1..One, r1 : -1..One] :
                      Valid(p) /\ p.alpha # 0 /\ p.beta # 0}
      times(x, y, z) == x * y * z
  IN /\ \A load \in 1..(One - 1), p \in processes : p.r1 # load =>
          \A o \in {OnOff(load, p)} :
            times(o.alpha.num, o.beta.den, o.r1.num) * One =
            load * o.r1.den * (o.alpha.num * o.beta.den + o.beta.num * o.alpha.den)
     /\ \E load \in 1..One, p \in processes :
          p.r1 # load /\ OnOff(load, p).r1.num > OnOff(load, p).r1.den

\* A source that was given its state at the start starts with another one.
ASSUME InitialIsAnother == Initial(<<1, 1, 5, 1>>, 2) = {[n \in 0..1 |-> FALSE]}
=============================================================================
