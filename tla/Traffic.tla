------------------------------- MODULE Traffic -------------------------------
(***************************************************************************)
(* The traffic patterns and injection processes of BookSim (traffic.cpp,   *)
(* injection.cpp).  TrafficManager makes one of each per class; TSim hands *)
(* its packets over with their destinations, so it draws from neither.     *)
(*                                                                         *)
(* A pattern is [name, params]; what it draws at random it may draw in any *)
(* way.  RandomInt(n) is in 0..n.                                          *)
(***************************************************************************)
EXTENDS Integers, Sequences, FiniteSets

LOCAL INSTANCE TLC
LOCAL INSTANCE FiniteSetsExt

\* The parameters k, n and xr of the topology, if the pattern has none itself.
Param(pattern, i, default) == IF Len(pattern.params) < i THEN default ELSE pattern.params[i]

Radix(pattern, topology) == Param(pattern, 3, topology.xr) * Param(pattern, 1, topology.k)
Digits(pattern, topology) == Param(pattern, 2, topology.n)

Powers == {2^b : b \in 0..20}
Log2(nodes) == CHOOSE b \in 0..20 : 2^b = nodes

\* The constructors end the program for other numbers of nodes.
Accepts(pattern, nodes) ==
  /\ nodes > 0
  /\ pattern.name \in {"bitcomp", "transpose", "bitrev", "shuffle"} => nodes \in Powers
  /\ pattern.name = "transpose" => Log2(nodes) % 2 = 0
  /\ pattern.name = "taper64" => nodes = 64

-----------------------------------------------------------------------------
(* Permutations *)

BitComp(nodes, source) == nodes - 1 - source

Transpose(nodes, source) ==
  LET half == 2 ^ (Log2(nodes) \div 2)
  IN ((source \div half) % half) + (source % half) * half

BitRev(nodes, source) ==
  LET rev[b \in 0..Log2(nodes)] ==
        IF b = 0 THEN 0 ELSE 2 * rev[b - 1] + ((source \div 2^(b - 1)) % 2)
  IN rev[Log2(nodes)]

Shuffle(nodes, source) == ((2 * source) % nodes) + ((2 * source) \div nodes)

\* Every digit of the source moves by the same.
Shifted(source, radix, digits, by) ==
  FoldSet(LAMBDA d, sum : sum + radix^d * ((source \div radix^d + by) % radix), 0, 0..(digits - 1))

Tornado(source, radix, digits) == Shifted(source, radix, digits, (radix + 1) \div 2 - 1)
Neighbor(source, radix, digits) == Shifted(source, radix, digits, 1)

\* randomize: node i - 1 becomes the destination of the source that is at place
\* draws[i] of those that have none.
Randomized(nodes, draws) ==
  LET free(dest) == (0..(nodes - 1)) \ DOMAIN dest
      at(S, place) == CHOOSE x \in S : Cardinality({y \in S : y < x}) = place
      place_all[i \in 0..nodes] ==
        IF i = 0 THEN <<>>
        ELSE place_all[i - 1] @@ (at(free(place_all[i - 1]), draws[i]) :> i - 1)
  IN place_all[nodes]

-----------------------------------------------------------------------------
(* Random destinations *)

Background(nodes, excluded) == 0..(nodes - 1) \ excluded
Diagonal(nodes, source) == {(source + 1) % nodes, source}
Asymmetric(nodes, source) ==
  LET half == nodes \div 2
  IN {source % half, (source % half) + half}

\* Half of the packets go to a node nearby.
Taper64Near(source) == {(64 + source + 8 * a + b) % 64 : a \in -1..1, b \in -1..1}
Taper64(nodes, source) == Taper64Near(source) \union 0..(nodes - 1)

BadPermDFly(nodes, source, k) ==
  LET group == 2 * k * k
  IN {(d + (source \div group + 1) * group) % nodes : d \in 0..(group - 1)}

BadPermYarc(source, radix) == {d * radix + source \div radix : d \in 0..(radix - 1)}

\* The rates are cut or repeated to the number of hotspots.
Rates(rates, size) ==
  [i \in 1..size |-> IF rates = <<>> THEN 1 ELSE IF i <= Len(rates) THEN rates[i] ELSE rates[Len(rates)]]

Upto(rates, i) == FoldSet(LAMBDA j, sum : sum + rates[j], 0, 1..i)
MaxVal(rates) == Upto(rates, Len(rates)) - 1

\* The hotspot of a draw in 0..MaxVal.
HotSpot(hotspots, rates, pct) ==
  hotspots[CHOOSE i \in DOMAIN hotspots :
             /\ Len(hotspots) = 1 \/ pct < Upto(rates, i)
             /\ \A j \in 1..(i - 1) : pct >= Upto(rates, j)]

HotSpots(pattern) ==
  LET rates == Rates(pattern.rates, Len(pattern.hotspots))
  IN {HotSpot(pattern.hotspots, rates, pct) : pct \in 0..MaxVal(rates)}

\* TrafficPattern::New and the dest of what it makes.
Destinations(pattern, nodes, topology, source) ==
  CASE pattern.name = "bitcomp" -> {BitComp(nodes, source)}
    [] pattern.name = "transpose" -> {Transpose(nodes, source)}
    [] pattern.name = "bitrev" -> {BitRev(nodes, source)}
    [] pattern.name = "shuffle" -> {Shuffle(nodes, source)}
    [] pattern.name = "tornado" ->
         {Tornado(source, Radix(pattern, topology), Digits(pattern, topology))}
    [] pattern.name = "neighbor" ->
         {Neighbor(source, Radix(pattern, topology), Digits(pattern, topology))}
    [] pattern.name \in {"uniform", "randperm"} -> 0..(nodes - 1)
    [] pattern.name = "background" -> Background(nodes, pattern.excluded)
    [] pattern.name = "diagonal" -> Diagonal(nodes, source)
    [] pattern.name = "asymmetric" -> Asymmetric(nodes, source)
    [] pattern.name = "taper64" -> Taper64(nodes, source)
    [] pattern.name = "bad_dragon" -> BadPermDFly(nodes, source, Param(pattern, 1, topology.k))
    [] pattern.name = "badperm_yarc" -> BadPermYarc(source, Radix(pattern, topology))
    [] pattern.name = "hotspot" -> HotSpots(pattern)

-----------------------------------------------------------------------------
(* The on/off process: idle sources start with probability alpha and stop  *)
(* with beta, and send with r1 while they are on.  Two of the three are    *)
(* given, in parts of One, the other (Missing) follows from the load; a    *)
(* derived one is a fraction.                                              *)

One == 10
Missing == -1

Valid(p) ==
  /\ Cardinality({x \in {"alpha", "beta", "r1"} : p[x] = Missing}) = 1
  /\ p.alpha <= One /\ p.beta <= One /\ p.r1 <= One

Whole(x) == [num |-> x, den |-> One]

\* The constructor; what it derives need not be a probability.
OnOff(load, p) ==
  [alpha |-> IF p.alpha = Missing
             THEN [num |-> p.beta * load, den |-> (p.r1 - load) * One] ELSE Whole(p.alpha),
   beta |-> IF p.beta = Missing
            THEN [num |-> p.alpha * (p.r1 - load), den |-> load * One] ELSE Whole(p.beta),
   r1 |-> IF p.r1 = Missing
          THEN [num |-> load * (p.alpha + p.beta), den |-> p.alpha * One] ELSE Whole(p.r1)]

\* Drawn below x, and not below it, with a number in [0, 1).
MayBeBelow(x) == x.num > 0 /\ x.den > 0
MayBeAbove(x) == x.num < x.den \/ x.den < 0

\* test: what can become of a source, and whether it sends.
Test(process, on) ==
  LET turns == [new : {n \in BOOLEAN :
                         CASE on /\ n -> MayBeAbove(process.beta)
                           [] on /\ ~n -> MayBeBelow(process.beta)
                           [] ~on /\ n -> MayBeBelow(process.alpha)
                           [] ~on /\ ~n -> MayBeAbove(process.alpha)},
                send : BOOLEAN]
  IN {t \in turns : IF t.send THEN t.new /\ MayBeBelow(process.r1)
                    ELSE t.new => MayBeAbove(process.r1)}

\* The states at the start are drawn, unless they are the fourth parameter: then
\* they are taken from the third, r1, the integer part of which is on or off.
Initial(params, nodes) ==
  IF Len(params) > 3 THEN {[n \in 0..(nodes - 1) |-> params[3] \notin 0..(One - 1)]}
  ELSE [0..(nodes - 1) -> BOOLEAN]
=============================================================================
